---- MODULE Spec2Model ----
(***************************************************************************)
(* The Question UI renderer of the QuestionPy SDK                          *)
(* (questionpy_sdk/webserver/question_ui): QuestionUIRenderer, its ten     *)
(* passes over the lxml tree, and RenderErrorCollection.                   *)
(*                                                                         *)
(* A document is a function from node ids to node records.  Node 0 is the  *)
(* document node (the lxml ElementTree): its kids are the root element and *)
(* the comments / processing instructions next to it.  Text is a sequence  *)
(* of tokens; the empty sequence stands for both None and "".              *)
(***************************************************************************)
EXTENDS Integers, Sequences, FiniteSets, TLC

VARIABLES
    xmlIn,      \* renderer -> the `xml` argument of its constructor
    env,        \* the arguments the renderers share: placeholders, options, seed, attempt
    pc,         \* renderer -> position: "new", "idle", or the pass render() runs next
    xml,        \* renderer -> self._xml, the tree the passes mutate
    errors,     \* renderer -> self._errors, the RenderErrorCollection's list
    html,       \* renderer -> self._html (NoHtml stands for None)
    random,     \* renderer -> state of self._random
    calls,      \* renderer -> number of render() calls that have ended
    result,     \* renderer -> how the last render() call ended
    coll,       \* a RenderErrorCollection driven by insert calls alone
    inserted,   \* the diagnostics handed to coll.insert, in call order
    metadata,   \* renderer -> self.metadata of a QuestionFormulationUIRenderer
    stateFiles, \* the dev webserver's state files: name -> content, for the files that exist
    cookies,    \* the display options that the browser's display_options cookie holds
    requests,   \* connection -> the request handler running on it and the handler's locals
    drawn,      \* the seeds of the GET /attempt renderings requested since the last restart
    restarts,   \* number of POST /attempt/restart requests handled
    indexIn,    \* a format and a position handed to the index conversions
    indexStr,   \* the index string computed for indexIn ("" before the conversion)
    runForever,     \* where Watcher.run_forever stands: the await it is suspended at
    onChangeEvent,  \* Watcher._on_change_event is set
    watch,          \* Watcher._watch is not None: the observer watches the source path
    debouncer,      \* the event debouncer holds events it has not flushed yet
    notifyCalls,    \* number of _notify() calls handed to the event loop and not yet run
    serverRunning,  \* the webserver is started
    changes,        \* number of file changes so far
    rebuilds        \* number of _rebuild_and_restart calls so far

webVars == <<stateFiles, cookies, requests, drawn, restarts>>
indexVars == <<indexIn, indexStr>>
watchVars == <<runForever, onChangeEvent, watch, debouncer, notifyCalls, serverRunning,
               changes, rebuilds>>

vars == <<xmlIn, env, pc, xml, errors, html, random, calls, result, coll, inserted, metadata,
          webVars, indexVars, watchVars>>

----------------------------------------------------------------------------
(* Bounds *)

NumRenderers == 2
MaxCalls == 2
MaxInserts == 4
MaxOrder == 2
NumClients == 2
MaxRestarts == 2
MaxSeed == 2
MaxLetter == 29
MaxRoman == 3999
MaxChanges == 3

Renderers == 1..NumRenderers
Clients == 1..NumClients

----------------------------------------------------------------------------
(* Small helpers *)

NoSeed == -1
NoHtml == <<>>
NoNode == -1
EmptyAttrs == [a \in {} |-> ""]
NoText == <<>>

Attr1(k, v) == [a \in {k} |-> v]
SetAttr(attrs, k, v) == [a \in (DOMAIN attrs) \cup {k} |-> IF a = k THEN v ELSE attrs[a]]
PopAttr(attrs, k) == [a \in (DOMAIN attrs) \ {k} |-> attrs[a]]
HasAttr(attrs, k) == k \in DOMAIN attrs
GetAttr(attrs, k, default) == IF k \in DOMAIN attrs THEN attrs[k] ELSE default

SeqToSet(s) == {s[i] : i \in 1..Len(s)}

RECURSIVE RemoveFromSeq(_, _)
RemoveFromSeq(s, x) ==
    IF s = <<>> THEN <<>>
    ELSE IF Head(s) = x THEN Tail(s)
    ELSE <<Head(s)>> \o RemoveFromSeq(Tail(s), x)

IndexOf(s, x) == CHOOSE i \in 1..Len(s) : s[i] = x

InsertAt(s, i, x) == SubSeq(s, 1, i - 1) \o <<x>> \o SubSeq(s, i, Len(s))

----------------------------------------------------------------------------
(* Nodes and trees *)

Elem(ns, tag, attrs, text, tail, line, kids) ==
    [kind |-> "elem", ns |-> ns, tag |-> tag, attrs |-> attrs, text |-> text,
     tail |-> tail, line |-> line, kids |-> kids]

Comment(tail, line) ==
    [kind |-> "comment", ns |-> "", tag |-> "", attrs |-> EmptyAttrs, text |-> <<"c">>,
     tail |-> tail, line |-> line, kids |-> <<>>]

ProcInst(target, text, tail, line) ==
    [kind |-> "pi", ns |-> "", tag |-> target, attrs |-> EmptyAttrs, text |-> text,
     tail |-> tail, line |-> line, kids |-> <<>>]

DocNode(kids) ==
    [kind |-> "doc", ns |-> "", tag |-> "", attrs |-> EmptyAttrs, text |-> NoText,
     tail |-> NoText, line |-> 0, kids |-> kids]

\* node.getparent(): the element holding the node; None for the root, for a node
\* next to the root, and for a node that was removed from its parent.
GetParent(d, n) ==
    IF \E p \in DOMAIN d : p # 0 /\ n \in SeqToSet(d[p].kids)
    THEN CHOOSE p \in DOMAIN d : p # 0 /\ n \in SeqToSet(d[p].kids)
    ELSE NoNode

\* The node whose kids hold n, the document node included (libxml2's parent link).
Holder(d, n) ==
    IF \E p \in DOMAIN d : n \in SeqToSet(d[p].kids)
    THEN CHOOSE p \in DOMAIN d : n \in SeqToSet(d[p].kids)
    ELSE NoNode

\* node.getprevious()
GetPrevious(d, n) ==
    LET h == Holder(d, n) IN
    IF h = NoNode THEN NoNode
    ELSE LET i == IndexOf(d[h].kids, n) IN IF i = 1 THEN NoNode ELSE d[h].kids[i - 1]

\* The nodes below n, n included, in document order.
RECURSIVE Walk(_, _)
RECURSIVE WalkSeq(_, _)
Walk(d, n) == <<n>> \o WalkSeq(d, d[n].kids)
WalkSeq(d, ks) == IF ks = <<>> THEN <<>> ELSE Walk(d, Head(ks)) \o WalkSeq(d, Tail(ks))

\* What an XPath query starting with // sees: every node of the document.
AllNodes(d) == Tail(Walk(d, 0))
\* What an XPath query starting with .// sees from element n.
Below(d, n) == Tail(Walk(d, n))

IsElement(d, n) == d[n].kind = "elem"
IsXhtml(d, n, tags) == d[n].kind = "elem" /\ d[n].ns = "xhtml" /\ d[n].tag \in tags
IsQpy(d, n) == d[n].kind = "elem" /\ d[n].ns = "qpy"

----------------------------------------------------------------------------
(* Diagnostics and RenderErrorCollection (question_ui/errors.py) *)

\* RenderError.order: `self.line or 0`; an unknown line is modelled as line 0.
ElementOrder(line) == line

SyntaxOrderByLine(line) == line
\* XMLSyntaxError.order
SyntaxOrder(line) == 0 - 1

ElementError(type, d, n, attribute, value) ==
    [type |-> type, line |-> d[n].line, order |-> ElementOrder(d[n].line), node |-> n,
     attribute |-> attribute, value |-> value]

XMLSyntaxError(line) ==
    [type |-> "XMLSyntaxError", line |-> line, order |-> SyntaxOrder(line), node |-> NoNode,
     attribute |-> "", value |-> <<>>]

\* bisect.bisect_left on the keys: a diagnostic goes before those of equal order.
RECURSIVE BisectLeft(_, _, _, _)
BisectLeft(a, x, lo, hi) ==
    IF lo < hi
    THEN LET mid == (lo + hi) \div 2 IN
         IF a[mid + 1].order < x THEN BisectLeft(a, x, mid + 1, hi)
         ELSE BisectLeft(a, x, lo, mid)
    ELSE lo

\* bisect.bisect_right(a, x, key=attrgetter("order")), indices counted from 0.
RECURSIVE BisectRight(_, _, _, _)
BisectRight(a, x, lo, hi) ==
    IF lo < hi
    THEN LET mid == (lo + hi) \div 2 IN
         IF x < a[mid + 1].order THEN BisectRight(a, x, lo, mid)
         ELSE BisectRight(a, x, mid + 1, hi)
    ELSE lo

\* RenderErrorCollection.insert: insort(self._errors, error, key=attrgetter("order"))
InsertError(es, e) == InsertAt(es, BisectRight(es, e.order, 0, Len(es)) + 1, e)

----------------------------------------------------------------------------
(* Tree surgery.  A pass works on st = [xml, errors, random, exc]; exc names *)
(* the exception that left the pass, "" while none did.                    *)

Raise(st, exc) == [st EXCEPT !.exc = exc]
Report(st, e) == [st EXCEPT !.errors = InsertError(@, e)]

\* parent.remove(node): the node leaves the tree together with its tail.
Detach(d, n) == LET p == Holder(d, n) IN [d EXCEPT ![p].kids = RemoveFromSeq(@, n)]

\* _remove_element: _require_parent raises ValueError when the node has no parent.
RemoveElement(st, n) ==
    IF GetParent(st.xml, n) = NoNode THEN Raise(st, "ValueError")
    ELSE [st EXCEPT !.xml = Detach(@, n)]

\* _add_text_before
AddTextBefore(st, before, text) ==
    LET prev == GetPrevious(st.xml, before) IN
    IF prev = NoNode
    THEN IF GetParent(st.xml, before) = NoNode THEN Raise(st, "ValueError")
         ELSE [st EXCEPT !.xml[GetParent(st.xml, before)].text = @ \o text]
    ELSE [st EXCEPT !.xml[prev].tail = @ \o text]

RemoveDroppingTail(st, n) == RemoveElement(st, n)
\* _remove_preserving_tail
RemovePreservingTail(st, n) ==
    LET st1 == IF st.xml[n].tail # NoText THEN AddTextBefore(st, n, st.xml[n].tail) ELSE st IN
    IF st1.exc # "" THEN st1 ELSE RemoveElement(st1, n)

----------------------------------------------------------------------------
(* Pass 1: _resolve_placeholders *)

\* str.lower() on the cleaning options the documents use.
Lower(w) ==
    CASE w = "PLAIN" -> "plain"
      [] w = "NoClean" -> "noclean"
      [] OTHER -> w

CleanOptions == {"plain", "clean", "noclean"}

\* lxml.html.fragment_fromstring(raw_value, create_parent=True) on the placeholder
\* values the model uses: the text before the first child and the children.
FragmentFromString(raw) ==
    CASE raw = "<b>one</b>.<script>x</script>" ->
            [text |-> NoText,
             kids |-> <<Elem("", "b", EmptyAttrs, <<"one">>, <<".">>, 0, <<>>),
                        Elem("", "script", EmptyAttrs, <<"x">>, NoText, 0, <<>>)>>]
      [] raw = "<input required>" ->
            [text |-> NoText,
             kids |-> <<Elem("", "input", Attr1("required", ""), NoText, NoText, 0, <<>>)>>]
      [] raw = "a<!--n-->b" ->
            [text |-> <<"a">>, kids |-> <<Comment(<<"b">>, 0)>>]
      [] OTHER -> [text |-> <<raw>>, kids |-> <<>>]

\* lxml.html.clean.clean(fragment): script elements, form fields and comments are
\* dropped, their tails kept.
RECURSIVE CleanKids(_)
CleanKids(ks) ==
    IF ks = <<>> THEN [lead |-> NoText, kids |-> <<>>]
    ELSE LET rest == CleanKids(Tail(ks)) IN
         IF Head(ks).tag \in {"script", "input"} \/ Head(ks).kind = "comment"
         THEN [lead |-> Head(ks).tail \o rest.lead, kids |-> rest.kids]
         ELSE [lead |-> NoText,
               kids |-> <<[Head(ks) EXCEPT !.tail = @ \o rest.lead]>> \o rest.kids]

Clean(fragment) ==
    LET c == CleanKids(fragment.kids) IN [text |-> fragment.text \o c.lead, kids |-> c.kids]

FreshId(d) == (CHOOSE m \in DOMAIN d : \A k \in DOMAIN d : k <= m) + 1

\* p_instruction.addprevious(child): only comments and processing instructions
\* may stand next to the root element (lxml raises TypeError otherwise).
AddPrevious(st, before, rec) ==
    LET h == Holder(st.xml, before)
        id == FreshId(st.xml)
    IN  IF h = 0 THEN Raise(st, "TypeError")
        ELSE [st EXCEPT !.xml = [k \in (DOMAIN st.xml) \cup {id} |->
                 IF k = id THEN rec
                 ELSE IF k = h
                      THEN [st.xml[h] EXCEPT !.kids = InsertAt(@, IndexOf(@, before), id)]
                      ELSE st.xml[k]]]

RECURSIVE AddAllPrevious(_, _, _)
AddAllPrevious(st, before, recs) ==
    IF recs = <<>> \/ st.exc # "" THEN st
    ELSE AddAllPrevious(AddPrevious(st, before, Head(recs)), before, Tail(recs))

\* _validate_placeholder: the diagnostics of one instruction, in insertion order.
\* The instruction's text is kept as the words str.split() yields.
PlaceholderProblems(d, n, placeholders) ==
    LET words == d[n].text IN
    IF words = <<>>
    THEN <<ElementError("PlaceholderReferenceError", d, n, "", <<>>)>>
    ELSE LET key == words[1]
             option == IF Len(words) = 2 THEN Lower(words[2]) ELSE "clean"
         IN  (IF option \notin CleanOptions
              THEN <<ElementError("InvalidCleanOptionError", d, n, "", <<option>>)>>
              ELSE <<>>)
             \o
             (IF key \notin DOMAIN placeholders
              THEN <<ElementError("PlaceholderReferenceError", d, n, "", <<key>>)>>
              ELSE <<>>)

RECURSIVE ReportAll(_, _)
ReportAll(st, es) == IF es = <<>> THEN st ELSE ReportAll(Report(st, Head(es)), Tail(es))

IsPlainNever(clean_option) == FALSE
\* if clean_option == "plain": the value is treated as plain text.
IsPlain(clean_option) == clean_option = "plain"

\* The body of the loop of _resolve_placeholders for one instruction.
ResolvePlaceholder(st, n, placeholders) ==
    LET problems == PlaceholderProblems(st.xml, n, placeholders) IN
    IF problems # <<>> THEN RemoveElement(ReportAll(st, problems), n)
    ELSE LET words == st.xml[n].text
             raw == placeholders[words[1]]
             option == IF Len(words) = 2 THEN Lower(words[2]) ELSE "clean"
             parsed == FragmentFromString(raw)
             fragment == IF option # "noclean" THEN Clean(parsed) ELSE parsed
             st1 == IF IsPlain(option) THEN AddTextBefore(st, n, <<raw>>)
                    ELSE LET st2 == IF fragment.text # NoText
                                    THEN AddTextBefore(st, n, fragment.text) ELSE st
                         IN  AddAllPrevious(st2, n, fragment.kids)
         IN  IF st1.exc # "" THEN st1 ELSE RemovePreservingTail(st1, n)

RECURSIVE ResolvePlaceholdersLoop(_, _, _)
ResolvePlaceholdersLoop(st, list, placeholders) ==
    IF list = <<>> \/ st.exc # "" THEN st
    ELSE ResolvePlaceholdersLoop(ResolvePlaceholder(st, Head(list), placeholders),
                                 Tail(list), placeholders)

ResolvePlaceholders(st, e) ==
    ResolvePlaceholdersLoop(st,
        SelectSeq(AllNodes(st.xml), LAMBDA n : st.xml[n].kind = "pi" /\ st.xml[n].tag = "p"),
        e.placeholders)

----------------------------------------------------------------------------
(* Pass 2: _hide_unwanted_feedback *)

FeedbackTypes == {"general", "specific"}

\* The condition under which the element stays.
KeepFeedback(feedback_type, options) ==
    \/ feedback_type = "general" /\ options.general_feedback
    \/ feedback_type = "specific" /\ options.feedback

\* The body of the loop for one element: remove first, report afterwards.
HideFeedbackAt(st, n, options) ==
    LET feedback_type == st.xml[n].attrs["qpy:feedback"]
        st1 == IF ~KeepFeedback(feedback_type, options) THEN RemoveElement(st, n) ELSE st
    IN  IF st1.exc # "" THEN st1
        ELSE IF feedback_type \notin FeedbackTypes
             THEN Report(st1, ElementError("InvalidAttributeValueError", st1.xml, n,
                                           "qpy:feedback", <<feedback_type>>))
             ELSE st1

RECURSIVE HideFeedbackLoop(_, _, _)
HideFeedbackLoop(st, list, options) ==
    IF list = <<>> \/ st.exc # "" THEN st
    ELSE HideFeedbackLoop(HideFeedbackAt(st, Head(list), options), Tail(list), options)

HideUnwantedFeedback(st, e) ==
    HideFeedbackLoop(st,
        SelectSeq(AllNodes(st.xml),
                  LAMBDA n : IsElement(st.xml, n) /\ HasAttr(st.xml[n].attrs, "qpy:feedback")),
        e.options)

----------------------------------------------------------------------------
(* Pass 3: _hide_if_role *)

QuestionDisplayRole == <<"DEVELOPER", "PROCTOR", "SCORER", "TEACHER">>

\* re.split(r"[\s|]+", attr) on the attribute values the documents use.
SplitRoles(attr) ==
    CASE attr = "teacher" -> <<"teacher">>
      [] attr = "TEACHER" -> <<"TEACHER">>
      [] attr = "scorer" -> <<"scorer">>
      [] attr = "teacher|scorer" -> <<"teacher", "scorer">>
      [] attr = "teacher bogus" -> <<"teacher", "bogus">>
      [] attr = "bogus" -> <<"bogus">>
      [] OTHER -> <<attr>>

\* str.upper() on the role tokens the documents use.
Upper(w) ==
    CASE w = "teacher" -> "TEACHER"
      [] w = "scorer" -> "SCORER"
      [] w = "bogus" -> "BOGUS"
      [] OTHER -> w

MapUpper(ws) == [i \in 1..Len(ws) |-> Upper(ws[i])]

HideIfRoleAt(st, n, options) ==
    LET attr == st.xml[n].attrs["qpy:if-role"] IN
    IF attr = "" THEN st
    ELSE LET allowed_roles == MapUpper(SplitRoles(attr))
             unexpected == SelectSeq(allowed_roles,
                                     LAMBDA role : role \notin SeqToSet(QuestionDisplayRole))
         IN  IF unexpected # <<>>
             THEN RemoveElement(
                      Report(st, ElementError("InvalidAttributeValueError", st.xml, n,
                                              "qpy:if-role", unexpected)), n)
             ELSE LET has_role == \E role \in SeqToSet(QuestionDisplayRole) :
                                      role \in SeqToSet(allowed_roles) /\ role \in options.roles
                  IN  IF ~has_role /\ GetParent(st.xml, n) # NoNode
                      THEN [st EXCEPT !.xml = Detach(@, n)]
                      ELSE st

RECURSIVE HideIfRoleLoop(_, _, _)
HideIfRoleLoop(st, list, options) ==
    IF list = <<>> \/ st.exc # "" THEN st
    ELSE HideIfRoleLoop(HideIfRoleAt(st, Head(list), options), Tail(list), options)

HideIfRole(st, e) ==
    HideIfRoleLoop(st,
        SelectSeq(AllNodes(st.xml),
                  LAMBDA n : IsElement(st.xml, n) /\ HasAttr(st.xml[n].attrs, "qpy:if-role")),
        e.options)

----------------------------------------------------------------------------
(* Pass 4: _set_input_values_and_readonly *)

\* Whether the name breaks the XPath string literal '...' it is pasted into.
HasQuote(name) == name = "it's"

\* The options of the document that sit directly in a select named `name`.
OptionsOfSelect(d, name) ==
    SelectSeq(AllNodes(d),
              LAMBDA o : /\ IsXhtml(d, o, {"option"})
                         /\ GetParent(d, o) # NoNode
                         /\ IsXhtml(d, GetParent(d, o), {"select"})
                         /\ GetAttr(d[GetParent(d, o)].attrs, "name", "") = name)

\* The option the loop of _set_element_value stops at, NoNode when it finds none.
RECURSIVE MatchingOption(_, _, _)
MatchingOption(d, opts, value) ==
    IF opts = <<>> THEN NoNode
    ELSE LET o == Head(opts)
             opt_value == IF HasAttr(d[o].attrs, "value") THEN <<d[o].attrs["value"]>>
                          ELSE d[o].text
         IN  IF opt_value = <<value>> THEN o ELSE MatchingOption(d, Tail(opts), value)

\* _set_element_value
SetElementValue(st, n, value, name) ==
    LET d == st.xml
        type_attr == IF d[n].tag = "input" THEN GetAttr(d[n].attrs, "type", "text") ELSE d[n].tag
    IN  IF type_attr \in {"checkbox", "radio"}
        THEN IF GetAttr(d[n].attrs, "value", "") = value /\ HasAttr(d[n].attrs, "value")
             THEN [st EXCEPT !.xml[n].attrs = SetAttr(@, "checked", "checked")]
             ELSE st
        ELSE IF type_attr = "select"
        THEN IF HasQuote(name) THEN Raise(st, "XPathEvalError")
             ELSE LET o == MatchingOption(d, OptionsOfSelect(d, name), value) IN
                  IF o = NoNode THEN st
                  ELSE [st EXCEPT !.xml[o].attrs = SetAttr(@, "selected", "selected")]
        ELSE IF type_attr = "textarea"
        THEN [st EXCEPT !.xml[n].text = <<value>>]
        ELSE IF type_attr \notin {"button", "submit", "hidden"}
        THEN [st EXCEPT !.xml[n].attrs = SetAttr(@, "value", value)]
        ELSE st

SetInputAtEnabled(st, n, e) ==
    LET name == GetAttr(st.xml[n].attrs, "name", "") IN
    IF name = "" \/ DOMAIN e.attempt = {} THEN st
    ELSE IF name \in DOMAIN e.attempt
         THEN SetElementValue(st, n, e.attempt[name], name)
         ELSE st
\* The body of the loop of _set_input_values_and_readonly for one element.
SetInputAt(st, n, e) ==
    LET st1 == IF e.options.readonly
               THEN [st EXCEPT !.xml[n].attrs = SetAttr(@, "disabled", "disabled")]
               ELSE st
        name == GetAttr(st.xml[n].attrs, "name", "")
    IN  IF name = "" \/ DOMAIN e.attempt = {} THEN st1
        ELSE IF name \in DOMAIN e.attempt
             THEN SetElementValue(st1, n, e.attempt[name], name)
             ELSE st1

RECURSIVE SetInputLoop(_, _, _)
SetInputLoop(st, list, e) ==
    IF list = <<>> \/ st.exc # "" THEN st
    ELSE SetInputLoop(SetInputAt(st, Head(list), e), Tail(list), e)

SetInputValuesAndReadonly(st, e) ==
    SetInputLoop(st,
        SelectSeq(AllNodes(st.xml),
                  LAMBDA n : IsXhtml(st.xml, n, {"button", "input", "select", "textarea"})),
        e)

----------------------------------------------------------------------------
(* Pass 5: _soften_validation *)

SoftenAt(d, n, attribute, data_attribute, aria_attribute) ==
    LET value == d[n].attrs[attribute]
        popped == PopAttr(d[n].attrs, attribute)
    IN  IF value # ""
        THEN LET v == IF value = attribute THEN "true" ELSE value
                 a1 == SetAttr(popped, data_attribute, v)
             IN  [d EXCEPT ![n].attrs = IF aria_attribute # ""
                                        THEN SetAttr(a1, aria_attribute, v) ELSE a1]
        ELSE [d EXCEPT ![n].attrs = popped]

RECURSIVE SoftenLoop(_, _, _, _, _)
SoftenLoop(d, list, attribute, data_attribute, aria_attribute) ==
    IF list = <<>> THEN d
    ELSE SoftenLoop(SoftenAt(d, Head(list), attribute, data_attribute, aria_attribute),
                    Tail(list), attribute, data_attribute, aria_attribute)

\* handle_attribute
HandleAttribute(d, elements, attribute, data_attribute, aria_attribute) ==
    SoftenLoop(d,
        SelectSeq(AllNodes(d),
                  LAMBDA n : IsXhtml(d, n, elements) /\ HasAttr(d[n].attrs, attribute)),
        attribute, data_attribute, aria_attribute)

SoftenValidation(st, e) ==
    LET d1 == HandleAttribute(st.xml, {"input"}, "pattern", "data-qpy_pattern", "")
        d2 == HandleAttribute(d1, {"input", "select", "textarea"}, "required",
                              "data-qpy_required", "aria-required")
        d3 == HandleAttribute(d2, {"input", "textarea"}, "minlength", "data-qpy_minlength", "")
        d4 == HandleAttribute(d3, {"input", "textarea"}, "maxlength", "data-qpy_maxlength", "")
        d5 == HandleAttribute(d4, {"input"}, "min", "data-qpy_min", "aria-valuemin")
        d6 == HandleAttribute(d5, {"input"}, "max", "data-qpy_max", "aria-valuemax")
    IN  [st EXCEPT !.xml = d6]

----------------------------------------------------------------------------
(* Pass 6: _defuse_buttons *)

DefuseButtons(st, e) ==
    [st EXCEPT !.xml = [n \in DOMAIN st.xml |->
        IF /\ n \in SeqToSet(AllNodes(st.xml))
           /\ IsXhtml(st.xml, n, {"input", "button"})
           /\ GetAttr(st.xml[n].attrs, "type", "") \in {"submit", "reset"}
        THEN [st.xml[n] EXCEPT !.attrs = SetAttr(@, "type", "button")]
        ELSE st.xml[n]]]

----------------------------------------------------------------------------
(* Pass 7: _shuffle_contents, with random.Random as a small congruential   *)
(* generator: Random(seed) fixes the state, shuffle draws from it.         *)

RngModulus == 16

RngStates == 0..(RngModulus - 1)

RngNext(s) == (5 * s + 7) % RngModulus

SeedStatesUnseeded(seed) == {seed % RngModulus, (seed + 1) % RngModulus}
\* Random(seed): the states the generator can start in.  Without a seed it is
\* seeded from the system's entropy.
SeedStates(seed) == IF seed = NoSeed THEN RngStates ELSE {seed % RngModulus}

Swap(seq, i, j) == [seq EXCEPT ![i] = seq[j], ![j] = seq[i]]

\* Random.shuffle: for i in reversed(range(1, len(x))): j = randbelow(i + 1); swap.
RECURSIVE ShuffleFrom(_, _, _)
ShuffleFrom(seq, s, i) ==
    IF i < 2 THEN [seq |-> seq, random |-> s]
    ELSE LET s1 == RngNext(s)
             j == ((s1 \div 4) % i) + 1
         IN  ShuffleFrom(Swap(seq, i, j), s1, i - 1)

Shuffle(seq, s) == ShuffleFrom(seq, s, Len(seq))

\* chr(ord("a") + index - 1), for the codes up to "~".
LowerChars == <<"a", "b", "c", "d", "e", "f", "g", "h", "i", "j", "k", "l", "m", "n", "o",
                "p", "q", "r", "s", "t", "u", "v", "w", "x", "y", "z", "{", "|", "}", "~">>
UpperChars == <<"A", "B", "C", "D", "E", "F", "G", "H", "I", "J", "K", "L", "M", "N", "O",
                "P", "Q", "R", "S", "T", "U", "V", "W", "X", "Y", "Z", "{", "|", "}", "~">>

\* _int_to_letter(index).lower() / .upper()
IntToLetter(index, upper) == IF upper THEN UpperChars[index] ELSE LowerChars[index]

RomanVal == <<1000, 900, 500, 400, 100, 90, 50, 40, 10, 9, 5, 4, 1>>
RomanSyb == <<"M", "CM", "D", "CD", "C", "XC", "L", "XL", "X", "IX", "V", "IV", "I">>
RomanSybLower == <<"m", "cm", "d", "cd", "c", "xc", "l", "xl", "x", "ix", "v", "iv", "i">>

RECURSIVE Repeat(_, _)
Repeat(str, k) == IF k <= 0 THEN "" ELSE str \o Repeat(str, k - 1)

\* _int_to_roman; .lower() is taken symbol by symbol.
RECURSIVE IntToRomanFrom(_, _, _)
IntToRomanFrom(index, i, syb) ==
    IF index <= 0 THEN ""
    ELSE LET k == index \div RomanVal[i] IN
         Repeat(syb[i], k) \o IntToRomanFrom(index - k * RomanVal[i], i + 1, syb)

IntToRoman(index, upper) == IntToRomanFrom(index, 1, IF upper THEN RomanSyb ELSE RomanSybLower)

\* str(index)
IntToStr(index) ==
    LET digits == <<"0", "1", "2", "3", "4", "5", "6", "7", "8", "9">> IN
    IF index < 10 THEN digits[index + 1]
    ELSE digits[(index \div 10) + 1] \o digits[(index % 10) + 1]

IndexFormats == {"123", "abc", "ABC", "iii", "III"}

IndexStr(format_style, index) ==
    CASE format_style = "123" -> IntToStr(index)
      [] format_style = "abc" -> IntToLetter(index, FALSE)
      [] format_style = "ABC" -> IntToLetter(index, TRUE)
      [] format_style = "iii" -> IntToRoman(index, FALSE)
      [] format_style = "III" -> IntToRoman(index, TRUE)

\* parent.replace(old, new) / insert-and-remove: a new element takes the place of
\* node n, which keeps its own children but is no longer in the tree.
ReplaceNode(d, n, rec) ==
    LET h == Holder(d, n)
        id == FreshId(d)
    IN  [k \in (DOMAIN d) \cup {id} |->
            IF k = id THEN rec
            ELSE IF k = h
                 THEN [d[h] EXCEPT !.kids = [i \in 1..Len(@) |-> IF @[i] = n THEN id ELSE @[i]]]
                 ELSE d[k]]

\* The body of the loop of _replace_shuffled_indices for one marker.
ReplaceShuffledIndex(st, m, index) ==
    LET format_style == GetAttr(st.xml[m].attrs, "format", "123") IN
    IF format_style \notin IndexFormats
    THEN RemovePreservingTail(
             Report(st, ElementError("InvalidAttributeValueError", st.xml, m, "format",
                                     <<format_style>>)), m)
    ELSE IF GetParent(st.xml, m) = NoNode THEN st
         ELSE [st EXCEPT !.xml = ReplaceNode(@, m,
                  Elem("", "span", EmptyAttrs, <<IndexStr(format_style, index)>>,
                       st.xml[m].tail, 0, <<>>))]

RECURSIVE ReplaceIndicesLoop(_, _, _)
ReplaceIndicesLoop(st, list, index) ==
    IF list = <<>> \/ st.exc # "" THEN st
    ELSE ReplaceIndicesLoop(ReplaceShuffledIndex(st, Head(list), index), Tail(list), index)

\* _replace_shuffled_indices
ReplaceShuffledIndices(st, child, index) ==
    ReplaceIndicesLoop(st,
        SelectSeq(Below(st.xml, child),
                  LAMBDA m : IsQpy(st.xml, m) /\ st.xml[m].tag = "shuffled-index"),
        index)

\* An append that leaves the child where it was as well.
AppendCopy(d, n, child) == [d EXCEPT ![n].kids = @ \o <<child>>]

\* element.append(child): the child moves to the end of the element's children.
AppendChild(d, n, child) == [d EXCEPT ![n].kids = RemoveFromSeq(@, child) \o <<child>>]

RECURSIVE ReinsertLoop(_, _, _, _)
ReinsertLoop(st, n, child_elements, i) ==
    IF i > Len(child_elements) \/ st.exc # "" THEN st
    ELSE LET st1 == ReplaceShuffledIndices(st, child_elements[i], i) IN
         IF st1.exc # "" THEN st1
         ELSE ReinsertLoop([st1 EXCEPT !.xml = AppendChild(@, n, child_elements[i])],
                           n, child_elements, i + 1)

\* [child for child in element if isinstance(child, etree._Element)]: lxml's
\* comments and processing instructions are _Element instances too.
ChildElements(d, n) == d[n].kids

\* The body of the loop of _shuffle_contents for one container.
ShuffleAt(st, n) ==
    LET sh == Shuffle(ChildElements(st.xml, n), st.random)
        st1 == [st EXCEPT !.random = sh.random,
                          !.xml[n].attrs = PopAttr(@, "qpy:shuffle-contents")]
    IN  ReinsertLoop(st1, n, sh.seq, 1)

RECURSIVE ShuffleLoop(_, _)
ShuffleLoop(st, list) ==
    IF list = <<>> \/ st.exc # "" THEN st
    ELSE ShuffleLoop(ShuffleAt(st, Head(list)), Tail(list))

ShuffleContents(st, e) ==
    ShuffleLoop(st,
        SelectSeq(AllNodes(st.xml),
                  LAMBDA n : IsElement(st.xml, n)
                             /\ HasAttr(st.xml[n].attrs, "qpy:shuffle-contents")))

----------------------------------------------------------------------------
(* Pass 8: _add_styles *)

\* str.split() on the class attributes the documents use.
SplitClasses(v) ==
    CASE v = "" -> <<>>
      [] v = "qpy-input" -> <<"qpy-input">>
      [] v = "btn" -> <<"btn">>
      [] v = "mine" -> <<"mine">>
      [] v = "mine qpy-input" -> <<"mine", "qpy-input">>
      [] OTHER -> <<v>>

RECURSIVE Join(_)
Join(ws) ==
    IF ws = <<>> THEN ""
    ELSE IF Len(ws) = 1 THEN ws[1]
    ELSE ws[1] \o " " \o Join(Tail(ws))

RECURSIVE AddMissing(_, _)
AddMissing(existing, class_names) ==
    IF class_names = <<>> THEN existing
    ELSE AddMissing(IF Head(class_names) \in SeqToSet(existing) THEN existing
                    ELSE existing \o <<Head(class_names)>>,
                    Tail(class_names))

\* _add_class_names
AddClassNames(attrs, class_names) ==
    SetAttr(attrs, "class", Join(AddMissing(SplitClasses(GetAttr(attrs, "class", "")), class_names)))

ButtonTypes == {"button", "submit", "reset"}
CheckTypes == {"checkbox", "radio"}

\* The three XPath groups; `@type != 'x'` is false for an element without a type.
StyleGroup1(d, n) ==
    \/ /\ IsXhtml(d, n, {"input"})
       /\ HasAttr(d[n].attrs, "type")
       /\ d[n].attrs["type"] \notin (ButtonTypes \cup CheckTypes)
    \/ IsXhtml(d, n, {"select", "textarea"})
StyleGroup2(d, n) ==
    \/ IsXhtml(d, n, {"input"}) /\ GetAttr(d[n].attrs, "type", "") \in ButtonTypes
    \/ IsXhtml(d, n, {"button"})
StyleGroup3(d, n) ==
    IsXhtml(d, n, {"input"}) /\ GetAttr(d[n].attrs, "type", "") \in CheckTypes

AddStyles(st, e) ==
    LET d == st.xml
        live == SeqToSet(AllNodes(d))
        d1 == [n \in DOMAIN d |-> IF n \in live /\ StyleGroup1(d, n)
                  THEN [d[n] EXCEPT !.attrs = AddClassNames(@, <<"form-control", "qpy-input">>)]
                  ELSE d[n]]
        d2 == [n \in DOMAIN d |-> IF n \in live /\ StyleGroup2(d1, n)
                  THEN [d1[n] EXCEPT !.attrs = AddClassNames(@, <<"btn", "btn-primary", "qpy-input">>)]
                  ELSE d1[n]]
        d3 == [n \in DOMAIN d |-> IF n \in live /\ StyleGroup3(d2, n)
                  THEN [d2[n] EXCEPT !.attrs = AddClassNames(@, <<"qpy-input">>)]
                  ELSE d2[n]]
    IN  [st EXCEPT !.xml = d3]

----------------------------------------------------------------------------
(* Pass 9: _format_floats, on the numeric literals the documents use *)

\* re.match(r"^\s*((\d+\.?\d*)|(\d*\.\d+)|(\d+e\d+))\s*$", text)
MatchesFloat(text) == text \in {"1.5", "3", "1000.5", "1e20"}

\* precision_text[0] == "-" and precision_text[1:].isnumeric()
IsNegativeInt(t) == t \in {"-1"}
\* precision_text.isnumeric()
IsNumeric(t) == t \in {"0", "2"}

\* f"{float_val:.{precision}f}", and str(float_val) without a precision ("" here).
FormatFloat(text, precision) ==
    CASE text = "1.5" /\ precision = "" -> "1.5"
      [] text = "1.5" /\ precision = "0" -> "2"
      [] text = "1.5" /\ precision = "2" -> "1.50"
      [] text = "3" /\ precision = "" -> "3.0"
      [] text = "3" /\ precision = "0" -> "3"
      [] text = "3" /\ precision = "2" -> "3.00"
      [] text = "1000.5" /\ precision = "" -> "1000.5"
      [] text = "1000.5" /\ precision = "0" -> "1000"
      [] text = "1000.5" /\ precision = "2" -> "1000.50"
      [] text = "1e20" /\ precision = "" -> "1e+20"
      [] text = "1e20" /\ precision = "0" -> "100000000000000000000"
      [] text = "1e20" /\ precision = "2" -> "100000000000000000000.00"

\* formatted_str.rstrip("0").rstrip(".") if "." in formatted_str else formatted_str
StripZeros(str) ==
    CASE str = "1.50" -> "1.5"
      [] str = "3.0" -> "3"
      [] str = "3.00" -> "3"
      [] str = "1000.50" -> "1000.5"
      [] str = "100000000000000000000.00" -> "100000000000000000000"
      [] OTHER -> str

\* formatted_str.split("."): the integral part and the rest ("" when there is none).
SplitDecimal(str) ==
    CASE str = "1.5" -> <<"1", "5">>
      [] str = "1.50" -> <<"1", "50">>
      [] str = "3.0" -> <<"3", "0">>
      [] str = "3.00" -> <<"3", "00">>
      [] str = "1000.5" -> <<"1000", "5">>
      [] str = "1000.50" -> <<"1000", "50">>
      [] str = "100000000000000000000.00" -> <<"100000000000000000000", "00">>
      [] OTHER -> <<str, "">>

\* Whether int(integral_part) succeeds.
IsIntLiteral(t) == t # "1e+20"

\* f"{int(integral_part):,}"
GroupThousands(t) ==
    CASE t = "1000" -> "1,000"
      [] t = "100000000000000000000" -> "100,000,000,000,000,000,000"
      [] OTHER -> t

\* _validate_format_float_element: the diagnostics of one element, in insertion order.
FormatFloatProblems(d, n) ==
    LET text == d[n].text[1]
        has_precision == HasAttr(d[n].attrs, "precision")
        precision_text == GetAttr(d[n].attrs, "precision", "")
        thousands_sep_attr == GetAttr(d[n].attrs, "thousands-separator", "no")
    IN  (IF ~MatchesFloat(text)
         THEN <<ElementError("ConversionError", d, n, "", <<text>>)>> ELSE <<>>)
        \o
        (IF ~has_precision THEN <<>>
         ELSE IF precision_text = "" \/ IsNegativeInt(precision_text)
         THEN <<ElementError("InvalidAttributeValueError", d, n, "precision", <<precision_text>>)>>
         ELSE IF IsNumeric(precision_text) THEN <<>>
         ELSE <<ElementError("ConversionError", d, n, "precision", <<precision_text>>)>>)
        \o
        (IF thousands_sep_attr \notin {"yes", "no"}
         THEN <<ElementError("InvalidAttributeValueError", d, n, "thousands-separator",
                             <<thousands_sep_attr>>)>>
         ELSE <<>>)

\* The body of the loop of _format_floats for one element.
FormatFloatAt(st, n) ==
    LET d == st.xml IN
    IF d[n].text = NoText THEN RemoveElement(st, n)
    ELSE LET problems == FormatFloatProblems(d, n) IN
         IF problems # <<>> THEN RemoveElement(ReportAll(st, problems), n)
         ELSE LET str1 == FormatFloat(d[n].text[1], GetAttr(d[n].attrs, "precision", ""))
                  str2 == IF HasAttr(d[n].attrs, "strip-zeros") THEN StripZeros(str1) ELSE str1
                  parts == SplitDecimal(str2)
              IN  IF GetAttr(d[n].attrs, "thousands-separator", "no") = "yes"
                     /\ ~IsIntLiteral(parts[1])
                  THEN Raise(st, "ValueError")
                  ELSE LET str3 == IF GetAttr(d[n].attrs, "thousands-separator", "no") = "yes"
                                   THEN IF parts[2] # ""
                                        THEN GroupThousands(parts[1]) \o "." \o parts[2]
                                        ELSE GroupThousands(parts[1])
                                   ELSE str2
                       IN  IF GetParent(d, n) = NoNode THEN st
                           ELSE [st EXCEPT !.xml = ReplaceNode(@, n,
                                    Elem("", "span", EmptyAttrs, <<str3>>, d[n].tail, 0, <<>>))]

RECURSIVE FormatFloatsLoop(_, _)
FormatFloatsLoop(st, list) ==
    IF list = <<>> \/ st.exc # "" THEN st
    ELSE FormatFloatsLoop(FormatFloatAt(st, Head(list)), Tail(list))

FormatFloats(st, e) ==
    FormatFloatsLoop(st,
        SelectSeq(AllNodes(st.xml),
                  LAMBDA n : IsQpy(st.xml, n) /\ st.xml[n].tag = "format-float"))

----------------------------------------------------------------------------
(* Pass 10: _clean_up, and the serialisation *)

\* attr.startswith("{http://questionpy.org/ns/question}")
IsQpyAttr(a) ==
    a \in {"qpy:feedback", "qpy:if-role", "qpy:shuffle-contents", "qpy:correct-response",
           "qpy:attribute"}

RECURSIVE RemoveUnknownLoop(_, _)
RemoveUnknownLoop(st, list) ==
    IF list = <<>> \/ st.exc # "" THEN st
    ELSE RemoveUnknownLoop(
             RemoveElement(Report(st, ElementError("UnknownElementError", st.xml, Head(list),
                                                   "", <<>>)),
                           Head(list)),
             Tail(list))

RECURSIVE RemoveCommentsLoop(_, _)
RemoveCommentsLoop(st, list) ==
    IF list = <<>> \/ st.exc # "" THEN st
    ELSE RemoveCommentsLoop(RemoveElement(st, Head(list)), Tail(list))

StripQpyAttrsKeeping(d) == d
\* for element in //*: del element.attrib[attr] for every qpy attribute
StripQpyAttrs(d) ==
    LET live == SeqToSet(AllNodes(d)) IN
    [n \in DOMAIN d |->
        IF n \in live /\ IsElement(d, n)
        THEN [d[n] EXCEPT !.attrs = [a \in {b \in DOMAIN @ : ~IsQpyAttr(b)} |-> @[a]]]
        ELSE d[n]]

\* element.tag = qname.localname for the elements of the XHTML namespace
StripXhtmlNamespace(d) ==
    LET live == SeqToSet(AllNodes(d)) IN
    [n \in DOMAIN d |->
        IF n \in live /\ IsElement(d, n) /\ d[n].ns = "xhtml"
        THEN [d[n] EXCEPT !.ns = ""]
        ELSE d[n]]

CleanUp(st, e) ==
    LET st1 == RemoveUnknownLoop(st, SelectSeq(AllNodes(st.xml), LAMBDA n : IsQpy(st.xml, n)))
    IN  IF st1.exc # "" THEN st1
        ELSE LET st2 == [st1 EXCEPT !.xml = StripQpyAttrs(@)]
                 st3 == RemoveCommentsLoop(st2,
                            SelectSeq(AllNodes(st2.xml), LAMBDA n : st2.xml[n].kind = "comment"))
             IN  IF st3.exc # "" THEN st3
                 ELSE [st3 EXCEPT !.xml = StripXhtmlNamespace(@)]

\* The escaping of text by the HTML serialiser, on the texts the model uses.
Escape(t) ==
    CASE t = "<b>one</b>.<script>x</script>" ->
             "&lt;b&gt;one&lt;/b&gt;.&lt;script&gt;x&lt;/script&gt;"
      [] t = "<input required>" -> "&lt;input required&gt;"
      [] t = "1 < 2 & 3" -> "1 &lt; 2 &amp; 3"
      [] t = "a<!--n-->b" -> "a&lt;!--n--&gt;b"
      [] OTHER -> t

Tok(t, ns, tag, attrs, str) == [t |-> t, ns |-> ns, tag |-> tag, attrs |-> attrs, s |-> str]

TextToks(text) == [i \in 1..Len(text) |-> Tok("text", "", "", EmptyAttrs, Escape(text[i]))]

\* etree.tostring(..., method="html"): the tokens of the markup, in order.
RECURSIVE Serialize(_, _)
RECURSIVE SerializeSeq(_, _)
Serialize(d, n) ==
    (IF d[n].kind = "elem"
     THEN <<Tok("open", d[n].ns, d[n].tag, d[n].attrs, "")>>
          \o TextToks(d[n].text) \o SerializeSeq(d, d[n].kids)
          \o <<Tok("close", d[n].ns, d[n].tag, EmptyAttrs, "")>>
     ELSE <<Tok(d[n].kind, "", d[n].tag, EmptyAttrs, "")>>)
    \o TextToks(d[n].tail)
SerializeSeq(d, ks) ==
    IF ks = <<>> THEN <<>> ELSE Serialize(d, Head(ks)) \o SerializeSeq(d, Tail(ks))

ToHtml(d) == SerializeSeq(d, d[0].kids)

----------------------------------------------------------------------------
(* The documents, placeholder maps, options and prior responses of the runs *)

AllRoles == {"DEVELOPER", "PROCTOR", "SCORER", "TEACHER"}

\* QuestionDisplayOptions
Options(general_feedback, feedback, roles, readonly) ==
    [general_feedback |-> general_feedback, feedback |-> feedback, right_answer |-> TRUE,
     roles |-> roles, readonly |-> readonly]

DefaultOptions == Options(TRUE, TRUE, AllRoles, FALSE)

NoPlaceholders == [k \in {} |-> ""]
SomePlaceholders == [k \in {"key"} |-> "<b>one</b>.<script>x</script>"]
SlotPlaceholders ==
    [k \in {"field", "text", "note"} |->
        CASE k = "field" -> "<input required>"
          [] k = "text" -> "1 < 2 & 3"
          [] k = "note" -> "a<!--n-->b"]
NoAttempt == [k \in {} |-> ""]
SomeAttempt ==
    [k \in {"my_text", "my_select", "my_area", "my_check", "my_button"} |->
        CASE k = "my_text" -> "typed"
          [] k = "my_select" -> "2"
          [] k = "my_area" -> "long"
          [] k = "my_check" -> "on"
          [] k = "my_button" -> "pressed"]

Env(placeholders, options, seed, attempt) ==
    [placeholders |-> placeholders, options |-> options, seed |-> seed, attempt |-> attempt]

OptAttr(k, v) == IF v = "" THEN EmptyAttrs ELSE Attr1(k, v)

X(tag, attrs, text, tail, line, kids) == Elem("xhtml", tag, attrs, text, tail, line, kids)
Q(tag, attrs, text, tail, line, kids) == Elem("qpy", tag, attrs, text, tail, line, kids)

\* <div [qpy:feedback]><span qpy:feedback>outer<span qpy:feedback>inner</span></span>
\*   <span [qpy:feedback]>B</span></div>
DocFeedback(rootv, v1, v2, v3) ==
    (0 :> DocNode(<<1>>))
    @@ (1 :> X("div", OptAttr("qpy:feedback", rootv), NoText, NoText, 1, <<2, 4>>))
    @@ (2 :> X("span", Attr1("qpy:feedback", v1), <<"outer">>, NoText, 2, <<3>>))
    @@ (3 :> X("span", Attr1("qpy:feedback", v2), <<"inner">>, NoText, 3, <<>>))
    @@ (4 :> X("span", OptAttr("qpy:feedback", v3), <<"B">>, NoText, 4, <<>>))

\* <div><fieldset qpy:shuffle-contents=""><label><qpy:shuffled-index/>. A</label>
\*   (a label | a comment | an unknown qpy element) <label>...</label></fieldset></div>
DocShuffle(mid, f1, f3) ==
    (0 :> DocNode(<<1>>))
    @@ (1 :> X("div", EmptyAttrs, NoText, NoText, 1, <<2>>))
    @@ (2 :> X("fieldset", Attr1("qpy:shuffle-contents", ""), NoText, NoText, 2, <<3, 4, 5>>))
    @@ (3 :> X("label", EmptyAttrs, NoText, NoText, 3, <<6>>))
    @@ (4 :> CASE mid = "label" -> X("label", EmptyAttrs, NoText, NoText, 4, <<7>>)
               [] mid = "comment" -> Comment(NoText, 4)
               [] mid = "unknown" -> Q("unknown", EmptyAttrs, NoText, NoText, 4, <<7>>))
    @@ (5 :> X("label", EmptyAttrs, NoText, NoText, 5, <<8>>))
    @@ (6 :> Q("shuffled-index", OptAttr("format", f1), NoText, <<". A">>, 3, <<>>))
    @@ (7 :> Q("shuffled-index", EmptyAttrs, NoText, <<". B">>, 4, <<>>))
    @@ (8 :> Q("shuffled-index", OptAttr("format", f3), NoText, <<". C">>, 5, <<>>))

\* <div><ul qpy:shuffle-contents=""><li><qpy:shuffled-index/>. A
\*     <ol qpy:shuffle-contents=""><li><qpy:shuffled-index format=.../>. x</li>
\*       <li><qpy:shuffled-index format="abc"/>. y</li></ol></li>
\*   <li><qpy:shuffled-index/>. B</li></ul></div>
DocNested(f) ==
    (0 :> DocNode(<<1>>))
    @@ (1 :> X("div", EmptyAttrs, NoText, NoText, 1, <<2>>))
    @@ (2 :> X("ul", Attr1("qpy:shuffle-contents", ""), NoText, NoText, 2, <<3, 4>>))
    @@ (3 :> X("li", EmptyAttrs, NoText, NoText, 3, <<5, 6>>))
    @@ (4 :> X("li", EmptyAttrs, NoText, NoText, 7, <<11>>))
    @@ (5 :> Q("shuffled-index", EmptyAttrs, NoText, <<". A">>, 3, <<>>))
    @@ (6 :> X("ol", Attr1("qpy:shuffle-contents", ""), NoText, NoText, 4, <<7, 8>>))
    @@ (7 :> X("li", EmptyAttrs, NoText, NoText, 5, <<9>>))
    @@ (8 :> X("li", EmptyAttrs, NoText, NoText, 6, <<10>>))
    @@ (9 :> Q("shuffled-index", OptAttr("format", f), NoText, <<". x">>, 5, <<>>))
    @@ (10 :> Q("shuffled-index", Attr1("format", "abc"), NoText, <<". y">>, 6, <<>>))
    @@ (11 :> Q("shuffled-index", EmptyAttrs, NoText, <<". B">>, 7, <<>>))

\* [<!-- c -->]<div><element qpy:attribute="value">Content</element><!-- c -->tail
\*   <qpy:unknown><qpy:inner/></qpy:unknown><regular>Normal</regular></div>
\* or the same below a root element of the qpy namespace.
DocCleanUp(top, rootNs) ==
    (0 :> DocNode(IF top THEN <<7, 1>> ELSE <<1>>))
    @@ (1 :> Elem(rootNs, "div", EmptyAttrs, NoText, NoText, 2, <<2, 3, 4, 6>>))
    @@ (2 :> X("element", Attr1("qpy:attribute", "value"), <<"Content">>, NoText, 3, <<>>))
    @@ (3 :> Comment(<<"tail">>, 4))
    @@ (4 :> Q("unknown", EmptyAttrs, NoText, NoText, 5, <<5>>))
    @@ (5 :> Q("inner", EmptyAttrs, NoText, NoText, 5, <<>>))
    @@ (6 :> X("regular", EmptyAttrs, <<"Normal">>, NoText, 6, <<>>))
    @@ (7 :> Comment(NoText, 1))

\* <div>Text<?p ...?>tail<span/><?p ...?></div>
DocPlaceholder(words, words2) ==
    (0 :> DocNode(<<1>>))
    @@ (1 :> X("div", EmptyAttrs, <<"Text">>, NoText, 1, <<2, 3, 4>>))
    @@ (2 :> ProcInst("p", words, <<"tail">>, 2))
    @@ (3 :> X("span", EmptyAttrs, NoText, NoText, 3, <<>>))
    @@ (4 :> ProcInst("p", words2, NoText, 4))

\* <div>Text<?p ...?>tail<input name="my_text" required="required"/></div>
DocSlot(words) ==
    (0 :> DocNode(<<1>>))
    @@ (1 :> X("div", EmptyAttrs, <<"Text">>, NoText, 1, <<2, 3>>))
    @@ (2 :> ProcInst("p", words, <<"tail">>, 2))
    @@ (3 :> X("input", Attr1("name", "my_text") @@ Attr1("required", "required"),
               NoText, NoText, 3, <<>>))

\* <?p ...?><div>Text</div>: the instruction stands beside the root element.
DocTopSlot(words) ==
    (0 :> DocNode(<<2, 1>>))
    @@ (1 :> X("div", EmptyAttrs, <<"Text">>, NoText, 2, <<>>))
    @@ (2 :> ProcInst("p", words, NoText, 1))

\* <div [qpy:if-role]><div qpy:if-role>A</div><div qpy:if-role="teacher">T</div></div>
DocRoles(rootv, v) ==
    (0 :> DocNode(<<1>>))
    @@ (1 :> X("div", OptAttr("qpy:if-role", rootv), NoText, NoText, 1, <<2, 3>>))
    @@ (2 :> X("div", Attr1("qpy:if-role", v), <<"A">>, NoText, 2, <<>>))
    @@ (3 :> X("div", Attr1("qpy:if-role", "teacher"), <<"T">>, NoText, 3, <<>>))

\* The user input elements of tests/.../inputs.xhtml, buttons.xhtml and validations.xhtml.
DocInputs(selectName) ==
    (0 :> DocNode(<<1>>))
    @@ (1 :> X("div", EmptyAttrs, NoText, NoText, 1, <<2, 3, 4, 7, 8, 9>>))
    @@ (2 :> X("button", Attr1("name", "my_button") @@ Attr1("type", "submit"),
               <<"Button">>, NoText, 2, <<>>))
    @@ (3 :> X("input", Attr1("name", "my_text") @@ Attr1("type", "text")
                        @@ Attr1("required", "required") @@ Attr1("min", "17")
                        @@ Attr1("class", "mine qpy-input"),
               NoText, NoText, 3, <<>>))
    @@ (4 :> X("select", Attr1("name", selectName), NoText, NoText, 4, <<5, 6>>))
    @@ (5 :> X("option", Attr1("value", "1"), <<"One">>, NoText, 5, <<>>))
    @@ (6 :> X("option", EmptyAttrs, <<"2">>, NoText, 6, <<>>))
    @@ (7 :> X("textarea", Attr1("name", "my_area") @@ Attr1("maxlength", "10"),
               NoText, NoText, 7, <<>>))
    @@ (8 :> X("input", Attr1("name", "my_check") @@ Attr1("type", "checkbox")
                        @@ Attr1("value", "on"),
               NoText, NoText, 8, <<>>))
    @@ (9 :> X("input", Attr1("pattern", "^[a-z]+$") @@ Attr1("required", ""),
               NoText, NoText, 9, <<>>))

\* The fields of a formulation, after tests/.../metadata.xhtml:
\* <div><input name="my_number" type="number" required="" qpy:correct-response="42"/>
\*   <select name="my_select" [required] qpy:correct-response="1"/>
\*   <input name="my_radio" type="radio" value="1" required="required"/>
\*   <input name="my_radio" type="radio" [value="2"] required="required" qpy:correct-response=""/>
\*   <textarea name="my_text" qpy:correct-response=.../><button name="my_button"/>
\*   <input qpy:correct-response="x" required="required"/>
\*   <input xmlns="" name=... required="required" qpy:correct-response="7"/></div>
DocMetadata(selectRequired, radioValue, textResponse, otherName) ==
    (0 :> DocNode(<<1>>))
    @@ (1 :> X("div", EmptyAttrs, NoText, NoText, 1, <<2, 3, 4, 5, 6, 7, 8, 9>>))
    @@ (2 :> X("input", Attr1("name", "my_number") @@ Attr1("type", "number")
                        @@ Attr1("required", "") @@ Attr1("qpy:correct-response", "42"),
               NoText, NoText, 2, <<>>))
    @@ (3 :> X("select", Attr1("name", "my_select") @@ Attr1("qpy:correct-response", "1")
                         @@ (IF selectRequired THEN Attr1("required", "required") ELSE EmptyAttrs),
               NoText, NoText, 3, <<>>))
    @@ (4 :> X("input", Attr1("name", "my_radio") @@ Attr1("type", "radio") @@ Attr1("value", "1")
                        @@ Attr1("required", "required"),
               NoText, NoText, 4, <<>>))
    @@ (5 :> X("input", Attr1("name", "my_radio") @@ Attr1("type", "radio")
                        @@ OptAttr("value", radioValue) @@ Attr1("required", "required")
                        @@ Attr1("qpy:correct-response", ""),
               NoText, NoText, 5, <<>>))
    @@ (6 :> X("textarea", Attr1("name", "my_text") @@ Attr1("qpy:correct-response", textResponse),
               NoText, NoText, 6, <<>>))
    @@ (7 :> X("button", Attr1("name", "my_button"), <<"Button">>, NoText, 7, <<>>))
    @@ (8 :> X("input", Attr1("qpy:correct-response", "x") @@ Attr1("required", "required"),
               NoText, NoText, 8, <<>>))
    @@ (9 :> Elem("", "input", Attr1("name", otherName) @@ Attr1("required", "required")
                               @@ Attr1("qpy:correct-response", "7"),
               NoText, NoText, 9, <<>>))

\* <div>Value: <qpy:format-float [precision] [thousands-separator] [strip-zeros]>text
\*   </qpy:format-float>tail</div>
DocFloat(text, precision, thousands, strip) ==
    (0 :> DocNode(<<1>>))
    @@ (1 :> X("div", EmptyAttrs, <<"Value: ">>, NoText, 1, <<2>>))
    @@ (2 :> Q("format-float",
               (IF precision = "absent" THEN EmptyAttrs ELSE Attr1("precision", precision))
               @@ OptAttr("thousands-separator", thousands)
               @@ (IF strip THEN Attr1("strip-zeros", "") ELSE EmptyAttrs),
               IF text = "" THEN NoText ELSE <<text>>, <<"tail">>, 2, <<>>))

\* The xml argument: the tree the parser yields and, for markup that the strict
\* parser rejects, the line its XMLSyntaxError names (0 for well-formed markup).
Xml(tree, syntax_line) == [tree |-> tree, syntax_line |-> syntax_line]

Case(x, e) == [xml |-> x, env |-> e]

FeedbackValues == {"general", "specific", "bogus"}

FeedbackCases ==
    {Case(Xml(DocFeedback(rootv, v1, v2, v3), 0),
          Env(NoPlaceholders, Options(gf, fb, AllRoles, FALSE), 1, NoAttempt)) :
        rootv \in {"", "general", "bogus"}, v1 \in FeedbackValues, v2 \in {"general", "bogus"},
        v3 \in {"", "bogus"}, gf \in BOOLEAN, fb \in BOOLEAN}

ShuffleCases ==
    {Case(Xml(DocShuffle(mid, f1, f3), 0), Env(NoPlaceholders, DefaultOptions, seed, NoAttempt)) :
        mid \in {"label", "comment"}, f1 \in {"", "abc", "zzz"},
        f3 \in {"iii", "III"}, seed \in {NoSeed, 1, 2}}

NestedCases ==
    {Case(Xml(DocNested(f), 0), Env(NoPlaceholders, DefaultOptions, seed, NoAttempt)) :
        f \in {"", "III"}, seed \in {NoSeed, 1, 2}}

CleanUpCases ==
    {Case(Xml(DocCleanUp(top, rootNs), line), Env(NoPlaceholders, DefaultOptions, 1, NoAttempt)) :
        top \in BOOLEAN, rootNs \in {"xhtml", "qpy"}, line \in {0, 14}}

PlaceholderWords ==
    {<<>>, <<"key">>, <<"key", "PLAIN">>, <<"key", "NoClean">>, <<"key", "bad">>,
     <<"missing">>, <<"missing", "bad">>}

PlaceholderCases ==
    {Case(Xml(DocPlaceholder(words, words2), 0), Env(ph, DefaultOptions, 1, NoAttempt)) :
        words \in PlaceholderWords, words2 \in {<<"key">>, <<"missing", "bad">>},
        ph \in {NoPlaceholders, SomePlaceholders}}

SlotWords ==
    {<<"field", "noclean">>, <<"field">>, <<"text", "plain">>, <<"note", "noclean">>,
     <<"note">>, <<"note", "plain">>}

SlotCases ==
    {Case(Xml(DocSlot(words), 0),
          Env(SlotPlaceholders, Options(TRUE, TRUE, AllRoles, readonly), 1, NoAttempt)) :
        words \in SlotWords, readonly \in BOOLEAN}
    \cup {Case(Xml(DocTopSlot(words), 0), Env(SlotPlaceholders, DefaultOptions, 1, NoAttempt)) :
            words \in {<<"text", "plain">>, <<"missing">>}}

RoleCases ==
    {Case(Xml(DocRoles(rootv, v), 0),
          Env(NoPlaceholders, Options(TRUE, TRUE, roles, FALSE), 1, NoAttempt)) :
        rootv \in {"", "teacher", "bogus"},
        v \in {"", "scorer", "TEACHER", "teacher|scorer", "teacher bogus"},
        roles \in {{}, {"TEACHER"}, AllRoles}}

InputCases ==
    {Case(Xml(DocInputs(selectName), 0),
          Env(NoPlaceholders, Options(TRUE, TRUE, AllRoles, readonly), 1, attempt)) :
        selectName \in {"my_select", "it's"}, readonly \in BOOLEAN,
        attempt \in {NoAttempt, SomeAttempt, [k \in {"it's"} |-> "2"]}}

FloatCases ==
    {Case(Xml(DocFloat(text, precision, thousands, strip), 0),
          Env(NoPlaceholders, DefaultOptions, 1, NoAttempt)) :
        text \in {"", "1.5", "1000.5", "1e20", "abc"}, precision \in {"absent", "", "2", "-1", "x"},
        thousands \in {"", "yes", "maybe"}, strip \in BOOLEAN}

MetadataCases ==
    {Case(Xml(DocMetadata(selectRequired, radioValue, textResponse, otherName), 0),
          Env(NoPlaceholders, Options(TRUE, fb, AllRoles, readonly), 1, NoAttempt)) :
        selectRequired \in BOOLEAN, radioValue \in {"", "2"}, textResponse \in {"", "Lorem"},
        otherName \in {"my_other", "my_number"}, fb \in BOOLEAN, readonly \in BOOLEAN}

Cases ==
    FeedbackCases \cup ShuffleCases \cup CleanUpCases \cup PlaceholderCases \cup RoleCases
    \cup InputCases \cup FloatCases \cup SlotCases \cup MetadataCases \cup NestedCases

----------------------------------------------------------------------------
(* The renderer: __init__ and render() *)

\* _replace_qpy_urls, on the URLs the documents use.
ReplaceQpyUrls(t) ==
    CASE t = "qpy://static/acme/example/style.css" -> "/worker/acme/example/file/static/style.css"
      [] OTHER -> t

\* etree.fromstring(xml), with recover=True after an XMLSyntaxError.
Parse(x) ==
    [n \in DOMAIN x.tree |->
        [x.tree[n] EXCEPT !.attrs = [a \in DOMAIN @ |-> ReplaceQpyUrls(@[a])],
                          !.text = [i \in 1..Len(@) |-> ReplaceQpyUrls(@[i])],
                          !.tail = [i \in 1..Len(@) |-> ReplaceQpyUrls(@[i])]]]

\* QuestionMetadata()
NoMetadata == [correct_response |-> [k \in {} |-> ""], expected_data |-> [k \in {} |-> ""],
               required_fields |-> <<>>]

\* self._xml.findall(".//...") searches below the root element of the tree.
TreeRoot(d) == CHOOSE n \in SeqToSet(d[0].kids) : d[n].kind = "elem"

CorrectValueAttr(d, n) == d[n].attrs["qpy:correct-response"]
\* The value _get_metadata takes for an element carrying qpy:correct-response:
\* a radio input's own `value` attribute, otherwise the attribute's value.
CorrectValue(d, n) ==
    IF d[n].tag = "input" /\ GetAttr(d[n].attrs, "type", "") = "radio"
    THEN GetAttr(d[n].attrs, "value", "")
    ELSE d[n].attrs["qpy:correct-response"]

\* The first loop of _get_metadata over the elements ns, in document order.
RECURSIVE CorrectResponses(_, _, _)
CorrectResponses(d, ns, acc) ==
    IF ns = <<>> THEN acc
    ELSE LET n == Head(ns)
             name == GetAttr(d[n].attrs, "name", "")
         IN  IF IsElement(d, n) /\ HasAttr(d[n].attrs, "qpy:correct-response")
                /\ name # "" /\ CorrectValue(d, n) # ""
             THEN CorrectResponses(d, Tail(ns), SetAttr(acc, name, CorrectValue(d, n)))
             ELSE CorrectResponses(d, Tail(ns), acc)

\* The inner loop of the second loop of _get_metadata, for one element type.
RECURSIVE ExpectedFields(_, _, _, _)
ExpectedFields(d, ns, element_type, md) ==
    IF ns = <<>> THEN md
    ELSE LET n == Head(ns)
             name == GetAttr(d[n].attrs, "name", "")
         IN  IF IsXhtml(d, n, {element_type}) /\ name # ""
             THEN ExpectedFields(d, Tail(ns), element_type,
                    [md EXCEPT !.expected_data = SetAttr(@, name, "Any"),
                               !.required_fields =
                                    IF HasAttr(d[n].attrs, "required") THEN Append(@, name) ELSE @])
             ELSE ExpectedFields(d, Tail(ns), element_type, md)

\* QuestionFormulationUIRenderer._get_metadata
GetMetadata(d) ==
    LET below == Below(d, TreeRoot(d))
        md0 == [NoMetadata EXCEPT !.correct_response = CorrectResponses(d, below, @)]
        md1 == ExpectedFields(d, below, "input", md0)
        md2 == ExpectedFields(d, below, "select", md1)
        md3 == ExpectedFields(d, below, "textarea", md2)
    IN  ExpectedFields(d, below, "button", md3)

RngOwnerShared(r) == 1
\* self._random: every renderer draws from the generator it created.
RngOwner(r) == r

RenderOrderAsClaimed ==
    <<"_resolve_placeholders", "_hide_unwanted_feedback", "_hide_if_role",
      "_set_input_values_and_readonly", "_soften_validation", "_defuse_buttons",
      "_shuffle_contents", "_clean_up", "_add_styles", "_format_floats", "tostring">>
\* The calls in the body of render(), in order; "tostring" is the serialisation.
RenderOrder ==
    <<"_resolve_placeholders", "_hide_unwanted_feedback", "_hide_if_role",
      "_set_input_values_and_readonly", "_soften_validation", "_defuse_buttons",
      "_shuffle_contents", "_add_styles", "_format_floats", "_clean_up", "tostring">>

NextPass(name) == RenderOrder[IndexOf(RenderOrder, name) + 1]

NoResult == [kind |-> "none", html |-> NoHtml, errors |-> <<>>, exc |-> ""]
Returned(h, es) == [kind |-> "return", html |-> h, errors |-> es, exc |-> ""]
Raised(exc) == [kind |-> "raise", html |-> NoHtml, errors |-> <<>>, exc |-> exc]

State(r) == [xml |-> xml[r], errors |-> errors[r], random |-> random[RngOwner(r)], exc |-> ""]

\* QuestionUIRenderer.__init__, then QuestionFormulationUIRenderer.__init__'s
\* self.metadata = self._get_metadata()
Construct(r) ==
    /\ r \in DOMAIN xmlIn
    /\ pc[r] = "new"
    /\ xml' = [xml EXCEPT ![r] = Parse(xmlIn[r])]
    /\ errors' = [errors EXCEPT ![r] = IF xmlIn[r].syntax_line # 0
                                       THEN InsertError(<<>>, XMLSyntaxError(xmlIn[r].syntax_line))
                                       ELSE <<>>]
    /\ \E s \in SeedStates(env.seed) : random' = [random EXCEPT ![RngOwner(r)] = s]
    /\ html' = [html EXCEPT ![r] = NoHtml]
    /\ metadata' = [metadata EXCEPT ![r] = GetMetadata(Parse(xmlIn[r]))]
    /\ pc' = [pc EXCEPT ![r] = "idle"]
    /\ UNCHANGED <<xmlIn, env, calls, result, coll, inserted, webVars, indexVars, watchVars>>

\* render() is called: with self._html unset it starts the passes, otherwise it
\* returns the memoized html and the error collection at once.
Render(r) ==
    /\ pc[r] = "idle"
    /\ calls[r] < MaxCalls
    /\ IF html[r] = NoHtml
       THEN /\ pc' = [pc EXCEPT ![r] = RenderOrder[1]]
            /\ UNCHANGED <<calls, result>>
       ELSE /\ calls' = [calls EXCEPT ![r] = @ + 1]
            /\ result' = [result EXCEPT ![r] = Returned(html[r], errors[r])]
            /\ UNCHANGED pc
    /\ UNCHANGED <<xmlIn, env, xml, errors, html, random, coll, inserted, metadata, webVars, indexVars, watchVars>>

\* How render() goes on after one call of its body: to the next call when the
\* pass completed; when an exception left the pass, it leaves render() too.
Advance(r, name, st) ==
    /\ xml' = [xml EXCEPT ![r] = st.xml]
    /\ errors' = [errors EXCEPT ![r] = st.errors]
    /\ random' = [random EXCEPT ![RngOwner(r)] = st.random]
    /\ IF st.exc = ""
       THEN /\ pc' = [pc EXCEPT ![r] = NextPass(name)]
            /\ UNCHANGED <<calls, result>>
       ELSE /\ pc' = [pc EXCEPT ![r] = "idle"]
            /\ calls' = [calls EXCEPT ![r] = @ + 1]
            /\ result' = [result EXCEPT ![r] = Raised(st.exc)]
    /\ UNCHANGED <<xmlIn, env, html, coll, inserted, metadata, webVars, indexVars, watchVars>>

PassResolvePlaceholders(r) ==
    /\ pc[r] = "_resolve_placeholders"
    /\ Advance(r, "_resolve_placeholders", ResolvePlaceholders(State(r), env))

PassHideUnwantedFeedback(r) ==
    /\ pc[r] = "_hide_unwanted_feedback"
    /\ Advance(r, "_hide_unwanted_feedback", HideUnwantedFeedback(State(r), env))

PassHideIfRole(r) ==
    /\ pc[r] = "_hide_if_role"
    /\ Advance(r, "_hide_if_role", HideIfRole(State(r), env))

PassSetInputValuesAndReadonly(r) ==
    /\ pc[r] = "_set_input_values_and_readonly"
    /\ Advance(r, "_set_input_values_and_readonly", SetInputValuesAndReadonly(State(r), env))

PassSoftenValidation(r) ==
    /\ pc[r] = "_soften_validation"
    /\ Advance(r, "_soften_validation", SoftenValidation(State(r), env))

PassDefuseButtons(r) ==
    /\ pc[r] = "_defuse_buttons"
    /\ Advance(r, "_defuse_buttons", DefuseButtons(State(r), env))

PassShuffleContents(r) ==
    /\ pc[r] = "_shuffle_contents"
    /\ Advance(r, "_shuffle_contents", ShuffleContents(State(r), env))

PassAddStyles(r) ==
    /\ pc[r] = "_add_styles"
    /\ Advance(r, "_add_styles", AddStyles(State(r), env))

PassFormatFloats(r) ==
    /\ pc[r] = "_format_floats"
    /\ Advance(r, "_format_floats", FormatFloats(State(r), env))

PassCleanUp(r) ==
    /\ pc[r] = "_clean_up"
    /\ Advance(r, "_clean_up", CleanUp(State(r), env))

\* self._html = etree.tostring(...); return self._html, self._errors
Finish(r) ==
    /\ pc[r] = "tostring"
    /\ html' = [html EXCEPT ![r] = ToHtml(xml[r])]
    /\ pc' = [pc EXCEPT ![r] = "idle"]
    /\ calls' = [calls EXCEPT ![r] = @ + 1]
    /\ result' = [result EXCEPT ![r] = Returned(ToHtml(xml[r]), errors[r])]
    /\ UNCHANGED <<xmlIn, env, xml, errors, random, coll, inserted, metadata, webVars, indexVars, watchVars>>

EmptyDoc == (0 :> DocNode(<<>>))

NoFiles == [f \in {} |-> ""]
NoIndex == [format |-> "123", index |-> 0]
None == "None"

\* A connection of the browser without a request in flight.
Idle == [pc |-> "idle"]

\* The dev webserver with the state files a former run left and no request in flight.
InitWeb(files) ==
    /\ stateFiles = files
    /\ cookies = DefaultOptions
    /\ requests = [c \in Clients |-> Idle]
    /\ drawn = {}
    /\ restarts = 0

\* No index conversion is under way.
NoConversion ==
    /\ indexIn = NoIndex
    /\ indexStr = ""

\* No watcher has been created.
NoWatcher ==
    /\ runForever = "none"
    /\ onChangeEvent = FALSE
    /\ watch = FALSE
    /\ debouncer = FALSE
    /\ notifyCalls = 0
    /\ serverRunning = FALSE
    /\ changes = 0
    /\ rebuilds = 0

InitRenderers(inputs) ==
    /\ xmlIn = inputs
    /\ pc = [r \in Renderers |-> "new"]
    /\ xml = [r \in Renderers |-> EmptyDoc]
    /\ errors = [r \in Renderers |-> <<>>]
    /\ html = [r \in Renderers |-> NoHtml]
    /\ random = [r \in Renderers |-> 0]
    /\ calls = [r \in Renderers |-> 0]
    /\ result = [r \in Renderers |-> NoResult]
    /\ coll = <<>>
    /\ inserted = <<>>
    /\ metadata = [r \in Renderers |-> NoMetadata]

\* One renderer, any of the documents.
Init ==
    \E c \in Cases :
        /\ env = c.env
        /\ InitRenderers([r \in {1} |-> c.xml])
        /\ InitWeb(NoFiles)
        /\ NoConversion
        /\ NoWatcher

Next ==
    \E r \in Renderers :
        \/ Construct(r)
        \/ Render(r)
        \/ PassResolvePlaceholders(r)
        \/ PassHideUnwantedFeedback(r)
        \/ PassHideIfRole(r)
        \/ PassSetInputValuesAndReadonly(r)
        \/ PassSoftenValidation(r)
        \/ PassDefuseButtons(r)
        \/ PassShuffleContents(r)
        \/ PassAddStyles(r)
        \/ PassFormatFloats(r)
        \/ PassCleanUp(r)
        \/ Finish(r)

Spec == Init /\ [][Next]_vars

----------------------------------------------------------------------------
(* Several renderers built from the same placeholders, options, seed and    *)
(* prior responses, as get_attempt_render_context builds them; their        *)
(* constructions and passes interleave in every way.                        *)

MultiXmls ==
    {Xml(DocShuffle("label", "abc", "III"), 0), Xml(DocCleanUp(FALSE, "xhtml"), 14)}

MultiInputs ==
    {[r \in Renderers |-> x] : x \in MultiXmls}
    \cup {[r \in Renderers |-> IF r = 1 THEN Xml(DocShuffle("label", "abc", "III"), 0)
                               ELSE Xml(DocShuffle("comment", "zzz", "iii"), 0)]}

MultiEnvs == {Env(NoPlaceholders, DefaultOptions, seed, NoAttempt) : seed \in {1, 2}}

InitMulti ==
    \E e \in MultiEnvs, inputs \in MultiInputs :
        /\ env = e
        /\ InitRenderers(inputs)
        /\ InitWeb(NoFiles)
        /\ NoConversion
        /\ NoWatcher

SpecMulti == InitMulti /\ [][Next]_vars

\* What one renderer yields when it is constructed and rendered with nothing else
\* going on: the passes of render() applied one after the other.
ApplyPass(name, st, e) ==
    CASE name = "_resolve_placeholders" -> ResolvePlaceholders(st, e)
      [] name = "_hide_unwanted_feedback" -> HideUnwantedFeedback(st, e)
      [] name = "_hide_if_role" -> HideIfRole(st, e)
      [] name = "_set_input_values_and_readonly" -> SetInputValuesAndReadonly(st, e)
      [] name = "_soften_validation" -> SoftenValidation(st, e)
      [] name = "_defuse_buttons" -> DefuseButtons(st, e)
      [] name = "_shuffle_contents" -> ShuffleContents(st, e)
      [] name = "_add_styles" -> AddStyles(st, e)
      [] name = "_format_floats" -> FormatFloats(st, e)
      [] name = "_clean_up" -> CleanUp(st, e)

RECURSIVE RunPasses(_, _, _)
RunPasses(st, i, e) ==
    IF st.exc # "" \/ RenderOrder[i] = "tostring" THEN st
    ELSE RunPasses(ApplyPass(RenderOrder[i], st, e), i + 1, e)

RenderedAlone(x, e) ==
    LET st0 == [xml |-> Parse(x),
                errors |-> IF x.syntax_line # 0
                           THEN InsertError(<<>>, XMLSyntaxError(x.syntax_line)) ELSE <<>>,
                random |-> e.seed % RngModulus,
                exc |-> ""]
        st == RunPasses(st0, 1, e)
    IN  [result |-> IF st.exc # "" THEN Raised(st.exc) ELSE Returned(ToHtml(st.xml), st.errors),
         errors |-> st.errors]

----------------------------------------------------------------------------
(* A RenderErrorCollection on its own, driven by insert calls *)

Diagnostics ==
    {XMLSyntaxError(line) : line \in 1..MaxOrder}
    \cup {[type |-> type, line |-> line, order |-> ElementOrder(line), node |-> NoNode,
           attribute |-> "", value |-> <<>>] :
            type \in {"UnknownElementError", "ConversionError"}, line \in 0..MaxOrder}

InitColl ==
    /\ env = Env(NoPlaceholders, DefaultOptions, NoSeed, NoAttempt)
    /\ InitRenderers([r \in {} |-> Xml(EmptyDoc, 0)])
    /\ InitWeb(NoFiles)
    /\ NoConversion
    /\ NoWatcher

\* RenderErrorCollection.insert
Insert(e) ==
    /\ Len(inserted) < MaxInserts
    /\ coll' = InsertError(coll, e)
    /\ inserted' = Append(inserted, e)
    /\ UNCHANGED <<xmlIn, env, pc, xml, errors, html, random, calls, result, metadata, webVars, indexVars, watchVars>>

NextColl == \E e \in Diagnostics : Insert(e)

SpecColl == InitColl /\ [][NextColl]_vars

----------------------------------------------------------------------------
(* The attempt routes of the dev webserver (webserver/routes/attempt.py).   *)
(* The handlers are coroutines of one event loop: a handler runs alone up   *)
(* to its next await on the worker, where the handlers of other requests    *)
(* may run.  A handler that starts with `await request.json()` is taken up  *)
(* where the body has arrived.                                              *)

\* webserver.read_state_file(name): the content of the file, None without the file.
ReadStateFile(files, name) == IF name \in DOMAIN files THEN files[name] ELSE None

\* webserver.write_state_file(name, content)
WriteStateFile(files, name, content) ==
    [f \in (DOMAIN files) \cup {name} |-> IF f = name THEN content ELSE files[f]]

\* webserver.delete_state_files(*names)
DeleteStateFiles(files, names) == [f \in (DOMAIN files) \ names |-> files[f]]

\* bool(s) of an optional string
Truthy(s) == s \notin {None, ""}

\* str(seed)
SeedStr(seed) ==
    CASE seed = 0 -> "0" [] seed = 1 -> "1" [] seed = 2 -> "2" [] seed = 3 -> "3"
      [] seed = 4 -> "4"

\* int(seed_str)
SeedInt(seed_str) ==
    CASE seed_str = "0" -> 0 [] seed_str = "1" -> 1 [] seed_str = "2" -> 2
      [] seed_str = "3" -> 3 [] seed_str = "4" -> 4

\* random.randint(0, 1000), on a smaller range
RandInt == 0..MaxSeed

AttemptSeedFresh(seed_str, fresh) == fresh
\* The seed get_attempt renders with: the stored one, else the one just generated.
AttemptSeed(seed_str, fresh) == IF Truthy(seed_str) THEN SeedInt(seed_str) ELSE fresh

AttemptData == {"{}", "{my_text: x}"}

\* The handler of the request on connection c ends.
Respond(c) == requests' = [requests EXCEPT ![c] = Idle]

\* GET /attempt, up to the await on the worker.  Of the files read, the score and
\* the last attempt data go to the worker and the templates only.
GetAttempt(c) ==
    /\ requests[c].pc = "idle"
    /\ IF ReadStateFile(stateFiles, "QUESTION_STATE") = None
       THEN UNCHANGED <<stateFiles, requests>>
       ELSE \E fresh \in RandInt :
              LET seed_str == ReadStateFile(stateFiles, "ATTEMPT_SEED")
                  seed == AttemptSeed(seed_str, fresh)
              IN  /\ stateFiles' = IF Truthy(seed_str) THEN stateFiles
                                   ELSE WriteStateFile(stateFiles, "ATTEMPT_SEED", SeedStr(seed))
                  /\ requests' = [requests EXCEPT ![c] =
                        [pc |-> "get_attempt", seed |-> seed,
                         attempt_state |-> ReadStateFile(stateFiles, "ATTEMPT_STATE"),
                         overtaken |-> FALSE]]
    /\ UNCHANGED <<cookies, drawn, restarts>>

\* GET /attempt, after the worker has answered: a new attempt's state is stored, and
\* the page is rendered with the seed.
GetAttemptRender(c) ==
    /\ requests[c].pc = "get_attempt"
    /\ stateFiles' = IF Truthy(requests[c].attempt_state) THEN stateFiles
                     ELSE WriteStateFile(stateFiles, "ATTEMPT_STATE", "attempt_state")
    /\ drawn' = IF requests[c].overtaken THEN drawn ELSE drawn \cup {requests[c].seed}
    /\ Respond(c)
    /\ UNCHANGED <<cookies, restarts>>

\* _score_attempt, up to the await on the worker.
ScoreAttempt(c, kind, data) ==
    /\ requests[c].pc = "idle"
    /\ IF ReadStateFile(stateFiles, "QUESTION_STATE") = None
          \/ ~Truthy(ReadStateFile(stateFiles, "ATTEMPT_STATE"))
       THEN UNCHANGED requests
       ELSE requests' = [requests EXCEPT ![c] =
                [pc |-> kind, data |-> data]]
    /\ UNCHANGED <<stateFiles, cookies, drawn, restarts>>

\* POST /attempt
SubmitAttempt(c) == \E data \in AttemptData : ScoreAttempt(c, "submit_attempt", data)

\* POST /attempt/rescore
RescoreAttempt(c) ==
    ScoreAttempt(c, "rescore_attempt", ReadStateFile(stateFiles, "LAST_ATTEMPT_DATA"))

\* _score_attempt after the worker has scored, and the rest of its caller.
ScoreAttemptStore(c) ==
    /\ requests[c].pc \in {"submit_attempt", "rescore_attempt"}
    /\ stateFiles' =
        LET scored == WriteStateFile(stateFiles, "SCORE", "score")
        IN  IF requests[c].pc = "submit_attempt"
            THEN WriteStateFile(scored, "LAST_ATTEMPT_DATA", requests[c].data)
            ELSE scored
    /\ cookies' = [cookies EXCEPT !.readonly = TRUE]
    /\ Respond(c)
    /\ UNCHANGED <<drawn, restarts>>

\* POST /attempt/display-options
SubmitDisplayOptions(c) ==
    /\ requests[c].pc = "idle"
    /\ \E readonly \in BOOLEAN : cookies' = [cookies EXCEPT !.readonly = readonly]
    /\ UNCHANGED <<stateFiles, requests, drawn, restarts>>

\* POST /attempt/restart.  A GET /attempt whose handler is waiting for the worker is
\* marked: the page it will render was requested before this restart.
RestartAttempt(c) ==
    /\ requests[c].pc = "idle"
    /\ restarts < MaxRestarts
    /\ stateFiles' = DeleteStateFiles(stateFiles,
                        {"ATTEMPT_STATE", "SCORE", "LAST_ATTEMPT_DATA", "ATTEMPT_SEED"})
    /\ restarts' = restarts + 1
    /\ drawn' = {}
    /\ requests' = [k \in Clients |-> IF requests[k].pc = "get_attempt"
                                       THEN [requests[k] EXCEPT !.overtaken = TRUE]
                                       ELSE requests[k]]
    /\ UNCHANGED cookies

\* POST /attempt/edit
EditLastAttempt(c) ==
    /\ requests[c].pc = "idle"
    /\ stateFiles' = DeleteStateFiles(stateFiles, {"SCORE"})
    /\ UNCHANGED <<cookies, requests, drawn, restarts>>

\* POST /attempt/save
SaveAttempt(c) ==
    /\ requests[c].pc = "idle"
    /\ \E data \in AttemptData :
            stateFiles' = WriteStateFile(stateFiles, "LAST_ATTEMPT_DATA", data)
    /\ UNCHANGED <<cookies, requests, drawn, restarts>>

\* The state files a former run of the webserver can have left.
StoredFiles ==
    {NoFiles, [f \in {"QUESTION_STATE"} |-> "question_state"]}
    \cup {[f \in {"QUESTION_STATE", "ATTEMPT_SEED"} |->
                IF f = "ATTEMPT_SEED" THEN SeedStr(seed) ELSE "question_state"] :
            seed \in RandInt}

InitWebserver ==
    /\ env = Env(NoPlaceholders, DefaultOptions, NoSeed, NoAttempt)
    /\ InitRenderers([r \in {} |-> Xml(EmptyDoc, 0)])
    /\ \E files \in StoredFiles : InitWeb(files)
    /\ NoConversion
    /\ NoWatcher

NextWebserver ==
    /\ \E c \in Clients :
        \/ GetAttempt(c)
        \/ GetAttemptRender(c)
        \/ SubmitAttempt(c)
        \/ RescoreAttempt(c)
        \/ ScoreAttemptStore(c)
        \/ SubmitDisplayOptions(c)
        \/ RestartAttempt(c)
        \/ EditLastAttempt(c)
        \/ SaveAttempt(c)
    /\ UNCHANGED <<xmlIn, env, pc, xml, errors, html, random, calls, result, coll, inserted,
                   metadata, indexVars, watchVars>>

SpecWebserver == InitWebserver /\ [][NextWebserver]_vars

----------------------------------------------------------------------------
(* The index strings of _replace_shuffled_indices on their own: a format and *)
(* a child position go in, the string of the replacing span comes out.       *)

\* The positions the conversions are applied to: every position up to MaxRoman for
\* the Roman numerals, the positions up to MaxLetter for the other formats.
IndexInputs ==
    {[format |-> f, index |-> n] : f \in {"iii", "III"}, n \in 1..MaxRoman}
    \cup {[format |-> f, index |-> n] : f \in {"123", "abc", "ABC"}, n \in 1..MaxLetter}

InitIndex ==
    /\ env = Env(NoPlaceholders, DefaultOptions, NoSeed, NoAttempt)
    /\ InitRenderers([r \in {} |-> Xml(EmptyDoc, 0)])
    /\ InitWeb(NoFiles)
    /\ indexIn \in IndexInputs
    /\ indexStr = ""
    /\ NoWatcher

\* The if/elif chain of _replace_shuffled_indices for a known format.
ConvertIndex ==
    /\ indexStr = ""
    /\ indexIn # NoIndex
    /\ indexStr' = IndexStr(indexIn.format, indexIn.index)
    /\ UNCHANGED <<xmlIn, env, pc, xml, errors, html, random, calls, result, coll, inserted,
                   metadata, webVars, indexIn, watchVars>>

SpecIndex == InitIndex /\ [][ConvertIndex]_vars

----------------------------------------------------------------------------
(* The watcher (watcher.py).  run_forever is a coroutine of the event loop; *)
(* it is suspended at event.wait() and at the awaits on the webserver,      *)
(* where the _notify() calls that the debouncer thread handed to the loop   *)
(* run.  Building the package is synchronous.                               *)

\* Watcher.__init__ and __aenter__: nothing is watched yet, run_forever is about to
\* start the webserver.
InitWatcher ==
    /\ env = Env(NoPlaceholders, DefaultOptions, NoSeed, NoAttempt)
    /\ InitRenderers([r \in {} |-> Xml(EmptyDoc, 0)])
    /\ InitWeb(NoFiles)
    /\ NoConversion
    /\ runForever = "start_server"
    /\ onChangeEvent = FALSE
    /\ watch = FALSE
    /\ debouncer = FALSE
    /\ notifyCalls = 0
    /\ serverRunning = FALSE
    /\ changes = 0
    /\ rebuilds = 0

Untouched == UNCHANGED <<xmlIn, env, pc, xml, errors, html, random, calls, result, coll,
                         inserted, metadata, webVars, indexVars>>

\* run_forever up to the loop: a failed start ends it, else the watch is scheduled.
StartServer ==
    /\ runForever = "start_server"
    /\ \E started \in BOOLEAN :
          /\ serverRunning' = started
          /\ watch' = started
          /\ runForever' = IF started THEN "wait" ELSE "returned"
    /\ UNCHANGED <<onChangeEvent, debouncer, notifyCalls, changes, rebuilds>>
    /\ Untouched

\* A file of the source path changes.  The observer hands the event to
\* _EventHandler.dispatch only while the watch is scheduled; dispatch passes it to
\* the debouncer unless _ignore_event says otherwise.
FileChange ==
    /\ runForever \notin {"returned", "raised"}
    /\ changes < MaxChanges
    /\ changes' = changes + 1
    /\ \E ignored \in BOOLEAN :
          debouncer' = IF watch /\ ~ignored THEN TRUE ELSE debouncer
    /\ UNCHANGED <<runForever, onChangeEvent, watch, notifyCalls, serverRunning, rebuilds>>
    /\ Untouched

\* _EventHandler._on_file_changes, in the debouncer's thread: the events held are
\* flushed as one _notify() call handed to the loop.
OnFileChanges ==
    /\ debouncer
    /\ debouncer' = FALSE
    /\ notifyCalls' = notifyCalls + 1
    /\ UNCHANGED <<runForever, onChangeEvent, watch, serverRunning, changes, rebuilds>>
    /\ Untouched

\* Watcher._notify, run by the loop while run_forever is suspended.
Notify ==
    /\ notifyCalls > 0
    /\ runForever \in {"wait", "stop_server", "restart_server"}
    /\ notifyCalls' = notifyCalls - 1
    /\ onChangeEvent' = TRUE
    /\ UNCHANGED <<runForever, watch, debouncer, serverRunning, changes, rebuilds>>
    /\ Untouched

\* The loop of run_forever from the return of event.wait() to the first await of
\* _rebuild_and_restart: the watch is unscheduled.
Wake ==
    /\ runForever = "wait"
    /\ onChangeEvent
    /\ watch' = FALSE
    /\ rebuilds' = rebuilds + 1
    /\ runForever' = "stop_server"
    /\ UNCHANGED <<onChangeEvent, debouncer, notifyCalls, serverRunning, changes>>
    /\ Untouched

\* The end of an iteration of the loop: _schedule() and _on_change_event.clear().
EndOfRebuild ==
    /\ watch' = TRUE
    /\ onChangeEvent' = FALSE
    /\ runForever' = "wait"

\* _rebuild_and_restart from the answer of stop_server to its next await: a failed
\* stop propagates out of run_forever, a failed build returns, else the server is
\* started again.
StopServer ==
    /\ runForever = "stop_server"
    /\ \E outcome \in {"stop failed", "build failed", "built"} :
          CASE outcome = "stop failed" ->
                    /\ runForever' = "raised"
                    /\ UNCHANGED <<onChangeEvent, watch, serverRunning>>
            [] outcome = "build failed" ->
                    /\ serverRunning' = FALSE
                    /\ EndOfRebuild
            [] outcome = "built" ->
                    /\ serverRunning' = FALSE
                    /\ runForever' = "restart_server"
                    /\ UNCHANGED <<onChangeEvent, watch>>
    /\ UNCHANGED <<debouncer, notifyCalls, changes, rebuilds>>
    /\ Untouched

\* _rebuild_and_restart from the answer of start_server, whose failure is logged
\* only, and the rest of the iteration.
RestartServer ==
    /\ runForever = "restart_server"
    /\ \E started \in BOOLEAN : serverRunning' = started
    /\ EndOfRebuild
    /\ UNCHANGED <<debouncer, notifyCalls, changes, rebuilds>>
    /\ Untouched

NextWatcher ==
    \/ StartServer
    \/ FileChange
    \/ OnFileChanges
    \/ Notify
    \/ Wake
    \/ StopServer
    \/ RestartServer

SpecWatcher == InitWatcher /\ [][NextWatcher]_vars

\* The event loop runs a coroutine that can run, the webserver answers, and the
\* debouncer's thread flushes what it holds; nothing makes files change.
FairWatcher ==
    /\ WF_vars(StartServer)
    /\ WF_vars(OnFileChanges)
    /\ WF_vars(Notify)
    /\ WF_vars(Wake)
    /\ WF_vars(StopServer)
    /\ WF_vars(RestartServer)

SpecWatcherFair == SpecWatcher /\ FairWatcher

----------------------------------------------------------------------------
(* The claims *)

Passes ==
    {"_resolve_placeholders", "_hide_unwanted_feedback", "_hide_if_role",
     "_set_input_values_and_readonly", "_soften_validation", "_defuse_buttons",
     "_shuffle_contents", "_add_styles", "_format_floats", "_clean_up", "tostring"}

Present(d, n) == n \in SeqToSet(AllNodes(d))

\* C1: once a render() call on a renderer has ended, no later call changes the
\* document or the diagnostics, and every later call ends the way the one before it
\* did, with the same (html, diagnostics) pair: the passes run once, on the first call.
C1_RenderOnce ==
    [][\A r \in Renderers :
          calls[r] >= 1 =>
              /\ pc'[r] \notin Passes
              /\ xml'[r] = xml[r]
              /\ errors'[r] = errors[r]
              /\ (calls'[r] # calls[r] => result'[r] = result[r] /\ result[r].kind = "return")
      ]_vars

\* C4: render() never raises: no call of render() ends with an exception.
C4_NeverRaises == \A r \in Renderers : result[r].kind # "raise"

\* C2 as stated: the passes run in the order placeholders, feedback, role, input
\* values, validation, buttons, shuffle, clean up, styling classes, format floats.
C2_OrderAsStated ==
    [][\A r \in Renderers :
          (pc[r] \in Passes /\ pc'[r] \in Passes) =>
              \E i \in 1..10 : /\ pc[r] = RenderOrderAsClaimed[i]
                               /\ pc'[r] = RenderOrderAsClaimed[i + 1]
      ]_vars

\* C2, amended: the passes run in the order placeholders, feedback, role, input
\* values, validation, buttons, shuffle, styling classes, format floats, clean up;
\* the html is serialised right after clean up, and a call that finds no html
\* starts with the placeholders.
C2_Order ==
    [][\A r \in Renderers :
          /\ (pc[r] \in Passes /\ pc'[r] \in Passes) =>
                << pc[r], pc'[r] >> \in
                    { <<"_resolve_placeholders", "_hide_unwanted_feedback">>,
                      <<"_hide_unwanted_feedback", "_hide_if_role">>,
                      <<"_hide_if_role", "_set_input_values_and_readonly">>,
                      <<"_set_input_values_and_readonly", "_soften_validation">>,
                      <<"_soften_validation", "_defuse_buttons">>,
                      <<"_defuse_buttons", "_shuffle_contents">>,
                      <<"_shuffle_contents", "_add_styles">>,
                      <<"_add_styles", "_format_floats">>,
                      <<"_format_floats", "_clean_up">>,
                      <<"_clean_up", "tostring">> }
          /\ (pc[r] = "idle" /\ pc'[r] \in Passes) => pc'[r] = "_resolve_placeholders"
          /\ (html[r] = NoHtml /\ html'[r] # NoHtml) => pc[r] = "tostring"
      ]_vars

\* A render() call has run all its passes and returned.
C2_Witness == \E r \in Renderers : calls[r] = 1 /\ result[r].kind = "return"

QpyAttrNames ==
    {"qpy:feedback", "qpy:if-role", "qpy:shuffle-contents", "qpy:correct-response",
     "qpy:attribute"}

NoQpyIn(h) ==
    \A i \in 1..Len(h) :
        /\ h[i].t # "comment"
        /\ h[i].ns # "qpy"
        /\ (DOMAIN h[i].attrs) \cap QpyAttrNames = {}

\* C3: the html render() returns holds no element and no attribute of the qpy
\* namespace and no comment, whatever the document was.
C3_NamespaceErased ==
    \A r \in Renderers :
        /\ NoQpyIn(html[r])
        /\ result[r].kind = "return" => NoQpyIn(result[r].html)

\* A document with a qpy element, a qpy attribute and a comment has been rendered.
C3_Witness ==
    \E r \in DOMAIN xmlIn :
        /\ xmlIn[r].tree = DocCleanUp(FALSE, "xhtml")
        /\ result[r].kind = "return"
        /\ Len(html[r]) > 0

WithOrder(es, o) == SelectSeq(es, LAMBDA e : e.order = o)

\* C5: iterating the collection yields every inserted diagnostic exactly once, in
\* ascending order of `order`, diagnostics of equal order in the order of their
\* insertion; len() is the number of inserts.
C5_StableOrder ==
    /\ Len(coll) = Len(inserted)
    /\ \A i, j \in 1..Len(coll) : i < j => coll[i].order <= coll[j].order
    /\ \A o \in {inserted[i].order : i \in 1..Len(inserted)} :
          WithOrder(coll, o) = WithOrder(inserted, o)

\* Diagnostics were inserted out of order, two different ones with the same order.
C5_Witness ==
    /\ Len(inserted) >= 3
    /\ \E i, j \in 1..Len(inserted) : i < j /\ inserted[i].order > inserted[j].order
    /\ \E i, j \in 1..Len(inserted) :
          i < j /\ inserted[i].order = inserted[j].order /\ inserted[i] # inserted[j]

SyntaxErrorsIn(es) == {i \in 1..Len(es) : es[i].type = "XMLSyntaxError"}

\* C6: a renderer whose markup failed strict parsing holds exactly one
\* XMLSyntaxError, carrying the parser's line, and iteration yields it first,
\* whatever the lines of the other diagnostics; a renderer whose markup parsed holds
\* none.
C6_SyntaxErrorFirst ==
    \A r \in DOMAIN xmlIn :
        pc[r] # "new" =>
            IF xmlIn[r].syntax_line # 0
            THEN /\ SyntaxErrorsIn(errors[r]) = {1}
                 /\ errors[r][1].line = xmlIn[r].syntax_line
            ELSE SyntaxErrorsIn(errors[r]) = {}

\* The syntax error sits at a line after the line of another collected diagnostic.
C6_Witness ==
    \E r \in DOMAIN xmlIn :
        /\ result[r].kind = "return"
        /\ \E i, j \in 1..Len(errors[r]) :
              /\ errors[r][i].type = "XMLSyntaxError"
              /\ errors[r][j].type # "XMLSyntaxError"
              /\ errors[r][j].line < errors[r][i].line

\* C7: renderers constructed from the same document, placeholders, options, prior
\* responses and the same integer seed return the same html.
C7_SeedDeterminism ==
    \A r1, r2 \in DOMAIN xmlIn :
        (/\ env.seed # NoSeed
         /\ xmlIn[r1] = xmlIn[r2]
         /\ html[r1] # NoHtml
         /\ html[r2] # NoHtml) => html[r1] = html[r2]

ShuffleContainers(d) ==
    {n \in DOMAIN d : IsElement(d, n) /\ HasAttr(d[n].attrs, "qpy:shuffle-contents")}

\* Two renderers of the same document have returned html in which the children of a
\* shuffled container changed their order.
C7_Witness ==
    \E r1, r2 \in DOMAIN xmlIn :
        /\ r1 # r2
        /\ xmlIn[r1] = xmlIn[r2]
        /\ html[r1] # NoHtml
        /\ html[r2] # NoHtml
        /\ \E c \in ShuffleContainers(xmlIn[r1].tree) :
              xml[r1][c].kids # xmlIn[r1].tree[c].kids

\* C8: whatever the interleaving of the constructions and passes of the renderers,
\* the first render() call of each ends as it does when the renderer is constructed
\* and rendered alone, with the same html and the same diagnostics, and the shared
\* placeholders, options and prior responses stay as they were.
C8_Independent ==
    /\ [](\A r \in DOMAIN xmlIn :
            (calls[r] = 1 /\ pc[r] = "idle") =>
                /\ result[r] = RenderedAlone(xmlIn[r], env).result
                /\ errors[r] = RenderedAlone(xmlIn[r], env).errors)
    /\ [][env' = env /\ xmlIn' = xmlIn]_vars

\* One renderer has returned while another one, which shuffles too, is between its
\* shuffle pass and its end.
C8_Witness ==
    \E r1, r2 \in DOMAIN xmlIn :
        /\ r1 # r2
        /\ calls[r1] = 1
        /\ result[r1].kind = "return"
        /\ ShuffleContainers(xmlIn[r1].tree) # {}
        /\ ShuffleContainers(xmlIn[r2].tree) # {}
        /\ pc[r2] \in {"_add_styles", "_format_floats", "_clean_up"}

\* The index strings of the five formats for the positions 1 to 3.
ExpectedIndex(format, p) ==
    CASE format = "123" -> <<"1", "2", "3">>[p]
      [] format = "abc" -> <<"a", "b", "c">>[p]
      [] format = "ABC" -> <<"A", "B", "C">>[p]
      [] format = "iii" -> <<"i", "ii", "iii">>[p]
      [] format = "III" -> <<"I", "II", "III">>[p]

IsMarker(d, m) ==
    /\ IsQpy(d, m)
    /\ d[m].tag = "shuffled-index"
    /\ GetAttr(d[m].attrs, "format", "123") \in IndexFormats

\* C9: after render(), the child at position p among the children of a
\* qpy:shuffle-contents container, as they are in the output, shows p, in the
\* marker's format, where it had a qpy:shuffled-index marker.
C9_NewPositions ==
    \A r \in DOMAIN xmlIn :
        result[r].kind = "return" =>
            \A c \in ShuffleContainers(xmlIn[r].tree) :
                \A p \in 1..Len(xml[r][c].kids) :
                    LET child == xml[r][c].kids[p]
                        orig == xmlIn[r].tree
                    IN  (child \in DOMAIN orig /\ IsElement(orig, child)) =>
                            \A q \in 1..Len(orig[child].kids) :
                                IsMarker(orig, orig[child].kids[q]) =>
                                    xml[r][xml[r][child].kids[q]].text =
                                        <<ExpectedIndex(GetAttr(orig[orig[child].kids[q]].attrs,
                                                                "format", "123"), p)>>

FeedbackElements(d) ==
    {n \in DOMAIN d : IsElement(d, n) /\ HasAttr(d[n].attrs, "qpy:feedback")}

FeedbackShown(d, n, options) ==
    \/ d[n].attrs["qpy:feedback"] = "general" /\ options.general_feedback
    \/ d[n].attrs["qpy:feedback"] = "specific" /\ options.feedback

FeedbackErrors(es, n) ==
    {i \in 1..Len(es) : /\ es[i].type = "InvalidAttributeValueError"
                        /\ es[i].node = n
                        /\ es[i].attribute = "qpy:feedback"}

\* C10: when a render() call has ended, an element carrying qpy:feedback whose value
\* is not (general with general_feedback) nor (specific with feedback) is not in the
\* document any more, one whose value is and that lies in no removed element is
\* still there, and the diagnostics hold exactly one InvalidAttributeValueError for
\* each element whose value is neither general nor specific and none for the others.
C10_FeedbackVisibility ==
    \A r \in DOMAIN xmlIn :
        (calls[r] >= 1 /\ pc[r] = "idle") =>
            LET d == xmlIn[r].tree IN
            \A n \in FeedbackElements(d) :
                /\ ~FeedbackShown(d, n, env.options) => ~Present(xml[r], n)
                /\ (/\ FeedbackShown(d, n, env.options)
                    /\ \A a \in FeedbackElements(d) :
                          n \in SeqToSet(Below(d, a)) => FeedbackShown(d, a, env.options))
                   => Present(xml[r], n)
                /\ Cardinality(FeedbackErrors(errors[r], n)) =
                      (IF d[n].attrs["qpy:feedback"] \in {"general", "specific"} THEN 0 ELSE 1)

IfRoleElements(d) ==
    {n \in DOMAIN d : IsElement(d, n) /\ HasAttr(d[n].attrs, "qpy:if-role")}

\* The viewer's role set holds one of the roles the attribute value lists.
RolesIntersect(attr, roles) ==
    \E i \in 1..Len(SplitRoles(attr)) : Upper(SplitRoles(attr)[i]) \in roles

\* C11: in the document of a render() call that returned, no element is left that
\* carried a qpy:if-role attribute listing none of the viewer's roles; with an empty
\* role set none of the elements that carried the attribute is left.
C11_RoleHidden ==
    \A r \in DOMAIN xmlIn :
        result[r].kind = "return" =>
            \A n \in IfRoleElements(xmlIn[r].tree) :
                ~RolesIntersect(xmlIn[r].tree[n].attrs["qpy:if-role"], env.options.roles)
                    => ~Present(xml[r], n)

InputTags == {"input", "select", "textarea", "button"}

\* The input-like elements in the document of the renderer as it is now.
InputsPresent(d) ==
    {n \in SeqToSet(AllNodes(d)) : IsElement(d, n) /\ d[n].tag \in InputTags}

\* C12 as stated: with readonly set, every input, select, textarea and button in
\* the document of a render() call that returned carries the disabled attribute.
C12_AllDisabled ==
    \A r \in DOMAIN xmlIn :
        (result[r].kind = "return" /\ env.options.readonly) =>
            \A n \in InputsPresent(xml[r]) : HasAttr(xml[r][n].attrs, "disabled")

\* C12, amended: in the document of a render() call that returned, an input, select,
\* textarea or button of the XHTML namespace that the input document itself held
\* carries the disabled attribute if readonly is set, and carries it only if it did
\* before if readonly is not set; an element that came in with a placeholder value
\* has the attributes of the value, readonly set or not.
C12_Readonly ==
    \A r \in DOMAIN xmlIn :
        result[r].kind = "return" =>
            \A n \in InputsPresent(xml[r]) :
                IF n \in DOMAIN xmlIn[r].tree
                THEN IsXhtml(xmlIn[r].tree, n, InputTags) =>
                        (HasAttr(xml[r][n].attrs, "disabled")
                            <=> (env.options.readonly
                                 \/ HasAttr(xmlIn[r].tree[n].attrs, "disabled")))
                ELSE ~HasAttr(xml[r][n].attrs, "disabled")

\* A readonly render has returned a document with a disabled input of its own next
\* to an input that a placeholder value brought in.
C12_Witness ==
    \E r \in DOMAIN xmlIn :
        /\ result[r].kind = "return"
        /\ env.options.readonly
        /\ \E n, m \in InputsPresent(xml[r]) :
              /\ n \in DOMAIN xmlIn[r].tree
              /\ HasAttr(xml[r][n].attrs, "disabled")
              /\ m \notin DOMAIN xmlIn[r].tree

Instructions(d) == {n \in DOMAIN d : d[n].kind = "pi" /\ d[n].tag = "p"}

ErrorsOf(es, n, type) == {i \in 1..Len(es) : es[i].node = n /\ es[i].type = type}

\* The option of an instruction with text: its second word in lower case, or clean.
OptionOf(words) == IF Len(words) = 2 THEN Lower(words[2]) ELSE "clean"

InstructionValid(words, placeholders) ==
    /\ words # <<>>
    /\ OptionOf(words) \in {"clean", "noclean", "plain"}
    /\ words[1] \in DOMAIN placeholders

\* Pass 1 of the first render() call of renderer r has ended.
PlaceholdersDone(r) ==
    /\ pc[r] \notin {"new", "_resolve_placeholders"}
    /\ pc[r] = "idle" => calls[r] >= 1

\* C13: once pass 1 has ended, no p instruction is left in the document; an
\* instruction without text has exactly one PlaceholderReferenceError and no other
\* diagnostic, one with text has one InvalidCleanOptionError exactly if its option is
\* not clean, noclean or plain and one PlaceholderReferenceError exactly if its key
\* is not in the placeholder map; and where every instruction has an error, pass 1
\* adds no node and no text to the document.
C13_InstructionsConsumed ==
    \A r \in DOMAIN xmlIn :
        PlaceholdersDone(r) =>
            LET d == xmlIn[r].tree IN
            /\ \A n \in Instructions(xml[r]) : ~Present(xml[r], n)
            /\ \A n \in Instructions(d) :
                  LET words == d[n].text IN
                  /\ Cardinality(ErrorsOf(errors[r], n, "PlaceholderReferenceError")) =
                        (IF words = <<>> \/ words[1] \notin DOMAIN env.placeholders
                         THEN 1 ELSE 0)
                  /\ Cardinality(ErrorsOf(errors[r], n, "InvalidCleanOptionError")) =
                        (IF words # <<>> /\ OptionOf(words) \notin {"clean", "noclean", "plain"}
                         THEN 1 ELSE 0)
            /\ (/\ pc[r] = "_hide_unwanted_feedback"
                /\ \A n \in Instructions(d) : ~InstructionValid(d[n].text, env.placeholders))
               => \A m \in SeqToSet(AllNodes(xml[r])) :
                     /\ m \in DOMAIN d
                     /\ xml[r][m].text = d[m].text
                     /\ (m \notin {GetPrevious(d, n) : n \in Instructions(d)}
                            => xml[r][m].tail = d[m].tail)

\* The instructions of d that are valid and have the option plain.
PlainInstructions(d, placeholders) ==
    {n \in Instructions(d) : InstructionValid(d[n].text, placeholders)
                             /\ OptionOf(d[n].text) = "plain"}

\* The placeholder values with their markup-special characters escaped.
EscapedValue(raw) ==
    CASE raw = "1 < 2 & 3" -> "1 &lt; 2 &amp; 3"
      [] raw = "a<!--n-->b" -> "a&lt;!--n--&gt;b"
      [] raw = "<input required>" -> "&lt;input required&gt;"
      [] raw = "<b>one</b>.<script>x</script>" ->
             "&lt;b&gt;one&lt;/b&gt;.&lt;script&gt;x&lt;/script&gt;"

\* The text in front of node n of d: the text of its parent when n is the first
\* child, the tail of the node before it otherwise.
TextBefore(d, orig, n) ==
    IF GetPrevious(orig, n) = NoNode THEN d[GetParent(orig, n)].text
    ELSE d[GetPrevious(orig, n)].tail

\* C14: when render() has returned, the value of every valid instruction with the
\* option plain stands as one piece of text where the instruction was, followed by
\* the text that followed the instruction, and the html shows the value with its
\* special characters escaped, followed by that text; and right after pass 1 a
\* document whose valid instructions all have the option plain holds no node it did
\* not hold before.
C14_PlainIsText ==
    \A r \in DOMAIN xmlIn :
        LET d == xmlIn[r].tree
            plain == PlainInstructions(d, env.placeholders)
        IN  /\ result[r].kind = "return" =>
                  \A n \in plain :
                      LET raw == env.placeholders[d[n].text[1]] IN
                      /\ TextBefore(xml[r], d, n) = TextBefore(d, d, n) \o <<raw>> \o d[n].tail
                      /\ \E i \in 1..Len(html[r]) :
                            /\ html[r][i].t = "text"
                            /\ html[r][i].s = EscapedValue(raw)
                            /\ d[n].tail # NoText =>
                                  /\ html[r][i + 1].t = "text"
                                  /\ html[r][i + 1].s = d[n].tail[1]
            /\ (/\ pc[r] = "_hide_unwanted_feedback"
                /\ plain # {}
                /\ \A n \in Instructions(d) :
                      InstructionValid(d[n].text, env.placeholders) => n \in plain)
               => \A m \in SeqToSet(AllNodes(xml[r])) : m \in DOMAIN d

\* A value with markup-special characters has been resolved as plain text in front
\* of the text that followed the instruction, and the html has been returned.
C14_Witness ==
    \E r \in DOMAIN xmlIn :
        /\ result[r].kind = "return"
        /\ \E n \in PlainInstructions(xmlIn[r].tree, env.placeholders) :
              /\ env.placeholders[xmlIn[r].tree[n].text[1]] = "1 < 2 & 3"
              /\ xmlIn[r].tree[n].tail = <<"tail">>

----------------------------------------------------------------------------
(* C15: the metadata of a formulation renderer *)

NameOf(d, n) == GetAttr(d[n].attrs, "name", "")

\* The named XHTML input, select, textarea and button elements of a document.
NamedFields(d) ==
    {n \in SeqToSet(AllNodes(d)) : IsXhtml(d, n, InputTags) /\ NameOf(d, n) # ""}

\* The named elements carrying qpy:correct-response.
Responders(d) ==
    {n \in SeqToSet(AllNodes(d)) :
        IsElement(d, n) /\ HasAttr(d[n].attrs, "qpy:correct-response") /\ NameOf(d, n) # ""}

\* The value of a responder: a radio input's own value attribute, otherwise the
\* value of its qpy:correct-response attribute ("" when there is none).
OwnValue(d, n) ==
    IF d[n].tag = "input" /\ "type" \in DOMAIN d[n].attrs /\ d[n].attrs["type"] = "radio"
    THEN (IF "value" \in DOMAIN d[n].attrs THEN d[n].attrs["value"] ELSE "")
    ELSE d[n].attrs["qpy:correct-response"]

Occurrences(s, x) == Cardinality({i \in 1..Len(s) : s[i] = x})

\* expected_data and required_fields are what the statement says they are.
FieldsListed(d, md) ==
    /\ DOMAIN md.expected_data = {NameOf(d, n) : n \in NamedFields(d)}
    /\ \A k \in DOMAIN md.expected_data : md.expected_data[k] = "Any"
    /\ SeqToSet(md.required_fields) \subseteq DOMAIN md.expected_data
    /\ \A k \in DOMAIN md.expected_data :
            Occurrences(md.required_fields, k)
                = Cardinality({n \in NamedFields(d) :
                                    NameOf(d, n) = k /\ HasAttr(d[n].attrs, "required")})

\* The last node of a set in document order.
LastOf(d, S) ==
    CHOOSE n \in S : \A m \in S : IndexOf(AllNodes(d), m) <= IndexOf(AllNodes(d), n)

\* C15 as stated: once a formulation renderer is constructed, its metadata lists the
\* named XHTML fields of the unrendered tree in expected_data, the required ones in
\* required_fields (once per element), and correct_response maps the name of every
\* named element carrying qpy:correct-response to its value.
C15_AsStated ==
    \A r \in DOMAIN xmlIn :
        pc[r] # "new" =>
            LET d == xmlIn[r].tree
                md == metadata[r]
            IN  /\ FieldsListed(d, md)
                /\ DOMAIN md.correct_response = {NameOf(d, n) : n \in Responders(d)}
                /\ \A n \in Responders(d) : md.correct_response[NameOf(d, n)] = OwnValue(d, n)

\* What C15_Metadata requires in every state.
MetadataOfInput ==
    \A r \in DOMAIN xmlIn :
        pc[r] # "new" =>
            LET d == xmlIn[r].tree
                md == metadata[r]
                valued == {n \in Responders(d) : OwnValue(d, n) # ""}
            IN  /\ FieldsListed(d, md)
                /\ DOMAIN md.correct_response = {NameOf(d, n) : n \in valued}
                /\ \A k \in DOMAIN md.correct_response :
                        md.correct_response[k]
                            = OwnValue(d, LastOf(d, {n \in valued : NameOf(d, n) = k}))

\* C15, amended: once a formulation renderer is constructed, its metadata is
\* determined by the unrendered tree alone, whatever the display options, and no
\* step of render() changes it: expected_data maps the name of every named XHTML
\* input, select, textarea and button to "Any", required_fields holds the name of
\* each of them that carries `required` once per element, and correct_response maps
\* the name of each named element carrying qpy:correct-response whose value (a radio
\* input's own value attribute, otherwise the attribute's value) is not empty to
\* that value, the last such element in document order deciding for a name; a
\* named element whose value is empty or missing has no entry.
C15_Metadata ==
    /\ []MetadataOfInput
    /\ [][\A r \in DOMAIN xmlIn : pc[r] # "new" => metadata'[r] = metadata[r]]_vars

\* render() has returned for a readonly formulation whose radio input supplied the
\* correct response, and the rendered tree no longer yields the metadata.
C15_Witness ==
    \E r \in DOMAIN xmlIn :
        /\ result[r].kind = "return"
        /\ env.options.readonly
        /\ "my_radio" \in DOMAIN metadata[r].correct_response
        /\ metadata[r].correct_response["my_radio"] = "2"
        /\ Occurrences(metadata[r].required_fields, "my_radio") = 2
        /\ GetMetadata(xml[r]) # metadata[r]

----------------------------------------------------------------------------
(* C16: the attempt seed of the dev webserver *)

SeedStored(files) == "ATTEMPT_SEED" \in DOMAIN files

\* Every page that GET /attempt requests handled wholly since the last restart have
\* rendered used the stored seed.
DrawnWithStoredSeed ==
    drawn # {} => (SeedStored(stateFiles) /\ drawn = {SeedInt(stateFiles["ATTEMPT_SEED"])})

\* What a step may do to the stored seed.
SeedStep ==
    /\ (SeedStored(stateFiles) /\ SeedStored(stateFiles'))
            => stateFiles'["ATTEMPT_SEED"] = stateFiles["ATTEMPT_SEED"]
    /\ (SeedStored(stateFiles) /\ ~SeedStored(stateFiles')) => restarts' = restarts + 1
    /\ (~SeedStored(stateFiles) /\ SeedStored(stateFiles'))
            => \E c \in Clients :
                    /\ requests[c].pc = "idle"
                    /\ requests'[c].pc = "get_attempt"
                    /\ ~requests'[c].overtaken
                    /\ stateFiles'["ATTEMPT_SEED"] = SeedStr(requests'[c].seed)

----------------------------------------------------------------------------
(* C17: what placeholder resolution inserted stays as inserted *)

\* The document of renderer r as pass 1 leaves it.
AfterPlaceholders(r) ==
    ResolvePlaceholders([xml |-> Parse(xmlIn[r]), errors |-> <<>>, random |-> 0, exc |-> ""],
                        env).xml

\* The nodes that pass 1 inserted: those of its result that the input did not hold.
InsertedNodes(r) ==
    {n \in SeqToSet(AllNodes(AfterPlaceholders(r))) : n \notin DOMAIN xmlIn[r].tree}

\* The valid instructions of the input.
ValidInstructions(r) ==
    {n \in Instructions(xmlIn[r].tree) :
        InstructionValid(xmlIn[r].tree[n].text, env.placeholders)}

\* C17: when render() has returned, every node that pass 1 inserted for a placeholder
\* is in the document with the attributes, text, children and following text that
\* pass 1 gave it, and the text in front of where each valid instruction stood is
\* the text that pass 1 left there.
C17_InsertedUntouched ==
    \A r \in DOMAIN xmlIn :
        result[r].kind = "return" =>
            LET after == AfterPlaceholders(r) IN
            /\ \A n \in InsertedNodes(r) :
                    /\ n \in SeqToSet(AllNodes(xml[r]))
                    /\ xml[r][n] = after[n]
            /\ \A n \in ValidInstructions(r) :
                    TextBefore(xml[r], xmlIn[r].tree, n) = TextBefore(after, xmlIn[r].tree, n)

----------------------------------------------------------------------------
(* C18: a qpy:if-role attribute with a token that is no role *)

\* The tokens of an attribute value that name no role, compared without case.
UnexpectedTokens(attr) ==
    SelectSeq(SplitRoles(attr), LAMBDA w : Upper(w) \notin AllRoles)

\* The elements of a document whose non-empty qpy:if-role attribute has such a token.
InvalidRoleElements(d) ==
    {n \in IfRoleElements(d) :
        d[n].attrs["qpy:if-role"] # "" /\ UnexpectedTokens(d[n].attrs["qpy:if-role"]) # <<>>}

\* Element n of the input of renderer r is gone and has exactly one
\* InvalidAttributeValueError, which names the unexpected tokens of its attribute.
RemovedWithOneError(r, n) ==
    /\ ~Present(xml[r], n)
    /\ Cardinality(ErrorsOf(errors[r], n, "InvalidAttributeValueError")) = 1
    /\ \A i \in ErrorsOf(errors[r], n, "InvalidAttributeValueError") :
            /\ errors[r][i].attribute = "qpy:if-role"
            /\ errors[r][i].value = MapUpper(UnexpectedTokens(xmlIn[r].tree[n].attrs["qpy:if-role"]))

\* C18: once a render() call has ended, it has returned, and every element whose
\* qpy:if-role attribute holds a token that is no member of the Role enumeration is
\* gone from the document, whatever the viewer's roles and the other tokens are, with
\* exactly one InvalidAttributeValueError that names the unexpected tokens.
C18_InvalidRoleRemoved ==
    \A r \in DOMAIN xmlIn :
        \A n \in InvalidRoleElements(xmlIn[r].tree) :
            result[r].kind # "none" => (result[r].kind = "return" /\ RemovedWithOneError(r, n))

----------------------------------------------------------------------------
(* C19: qpy:format-float elements and their diagnostics *)

FloatElements(d) == {n \in DOMAIN d : IsQpy(d, n) /\ d[n].tag = "format-float"}

\* The texts of the documents that are numbers.
NumericTexts == {"1.5", "1000.5", "1e20"}

Diagnostic(type, attribute) == [type |-> type, attribute |-> attribute]

\* The diagnostics the statement names for element n of d, as type and attribute.
ApplicableDiagnostics(d, n) ==
    LET a == d[n].attrs IN
    (IF d[n].text # NoText /\ d[n].text[1] \notin NumericTexts
     THEN {Diagnostic("ConversionError", "")} ELSE {})
    \cup (IF "precision" \in DOMAIN a /\ a["precision"] \in {"", "-1"}
          THEN {Diagnostic("InvalidAttributeValueError", "precision")} ELSE {})
    \cup (IF "precision" \in DOMAIN a /\ a["precision"] = "x"
          THEN {Diagnostic("ConversionError", "precision")} ELSE {})
    \cup (IF "thousands-separator" \in DOMAIN a /\ a["thousands-separator"] \notin {"yes", "no"}
          THEN {Diagnostic("InvalidAttributeValueError", "thousands-separator")} ELSE {})

\* The diagnostics recorded for node n, as type and attribute.
RecordedDiagnostics(es, n) ==
    {Diagnostic(es[i].type, es[i].attribute) : i \in {k \in 1..Len(es) : es[k].node = n}}

\* A new span with text stands in the document in front of the text that followed
\* element n of the input.
ReplacedBySpan(r, n) ==
    \E m \in SeqToSet(AllNodes(xml[r])) :
        /\ m \notin DOMAIN xmlIn[r].tree
        /\ xml[r][m].tag = "span"
        /\ xml[r][m].text # NoText
        /\ xml[r][m].tail = xmlIn[r].tree[n].tail
        /\ GetParent(xml[r], m) = GetParent(xmlIn[r].tree, n)

\* What C19 says of element n of the input of renderer r once render() has returned.
FloatHandled(r, n) ==
    LET d == xmlIn[r].tree
        applicable == ApplicableDiagnostics(d, n)
        recorded == RecordedDiagnostics(errors[r], n)
    IN  /\ ~Present(xml[r], n)
        /\ \A i \in 1..Len(html[r]) : html[r][i].tag # "format-float"
        /\ recorded = applicable
        /\ Cardinality({k \in 1..Len(errors[r]) : errors[r][k].node = n})
                = Cardinality(applicable)
        /\ IF d[n].text # NoText /\ d[n].text[1] \in NumericTexts /\ applicable = {}
           THEN ReplacedBySpan(r, n)
           ELSE recorded # {} /\ ~ReplacedBySpan(r, n)

\* C19: a render() call raises no exception, and when it has returned every
\* qpy:format-float element of the input is gone from the document and the html:
\* an element with numeric text and valid attributes is replaced by a span with the
\* formatted value; any other is removed, and the diagnostics recorded for it are
\* those that apply, at least one: a ConversionError for non-numeric text, an
\* InvalidAttributeValueError for an empty or negative precision, a ConversionError
\* for a non-numeric precision, an InvalidAttributeValueError for a
\* thousands-separator other than yes and no.
C19_FloatHandled ==
    \A r \in DOMAIN xmlIn :
        (result[r].kind # "none" /\ FloatElements(xmlIn[r].tree) # {}) =>
            /\ result[r].kind = "return"
            /\ \A n \in FloatElements(xmlIn[r].tree) : FloatHandled(r, n)

----------------------------------------------------------------------------
(* C20: a qpy:shuffled-index marker with an unknown format *)

\* The markers of d that lie inside a child of a shuffled container and whose format
\* attribute is none of the five formats.
BadMarkers(d) ==
    {m \in DOMAIN d :
        /\ IsQpy(d, m)
        /\ d[m].tag = "shuffled-index"
        /\ "format" \in DOMAIN d[m].attrs
        /\ d[m].attrs["format"] \notin {"123", "abc", "ABC", "iii", "III"}
        /\ \E c \in ShuffleContainers(d) :
                \E i \in 1..Len(d[c].kids) : m \in SeqToSet(Below(d, d[c].kids[i]))}

\* C20: once a render() call has ended it has returned, and every such marker is
\* gone from the document with nothing put in its place, exactly one diagnostic is
\* recorded for it, an InvalidAttributeValueError for the attribute `format` with the
\* offending value, and the text that followed the marker follows the text in front
\* of where it stood, in the document and in the html.
C20_BadMarkerDropped ==
    \A r \in DOMAIN xmlIn :
        LET d == xmlIn[r].tree IN
        \A m \in BadMarkers(d) :
            result[r].kind # "none" =>
                /\ result[r].kind = "return"
                /\ ~Present(xml[r], m)
                /\ xml[r][GetParent(d, m)].kids = RemoveFromSeq(d[GetParent(d, m)].kids, m)
                /\ Cardinality({i \in 1..Len(errors[r]) : errors[r][i].node = m}) = 1
                /\ \A i \in 1..Len(errors[r]) :
                        errors[r][i].node = m =>
                            /\ errors[r][i].type = "InvalidAttributeValueError"
                            /\ errors[r][i].attribute = "format"
                            /\ errors[r][i].value = <<d[m].attrs["format"]>>
                /\ TextBefore(xml[r], d, m) = TextBefore(d, d, m) \o d[m].tail
                /\ \A k \in 1..Len(d[m].tail) :
                        \E i \in 1..Len(html[r]) :
                            html[r][i].t = "text" /\ html[r][i].s = d[m].tail[k]

\* render() has returned a document from which a marker with the format zzz was
\* dropped, and the child that held it no longer stands first in its container.
C20_Witness ==
    \E r \in DOMAIN xmlIn :
        /\ result[r].kind = "return"
        /\ \E m \in BadMarkers(xmlIn[r].tree) :
                LET d == xmlIn[r].tree
                    child == GetParent(d, m)
                    container == GetParent(d, child)
                IN  /\ d[m].attrs["format"] = "zzz"
                    /\ d[m].tail # NoText
                    /\ d[container].kids[1] = child
                    /\ xml[r][container].kids[1] # child

----------------------------------------------------------------------------
(* C21: the index strings *)

\* The Roman numeral of n in subtractive notation, digit by digit.
StandardRoman(n) ==
    Repeat("M", n \div 1000)
    \o <<"", "C", "CC", "CCC", "CD", "D", "DC", "DCC", "DCCC", "CM">>[((n \div 100) % 10) + 1]
    \o <<"", "X", "XX", "XXX", "XL", "L", "LX", "LXX", "LXXX", "XC">>[((n \div 10) % 10) + 1]
    \o <<"", "I", "II", "III", "IV", "V", "VI", "VII", "VIII", "IX">>[(n % 10) + 1]

StandardRomanLower(n) ==
    Repeat("m", n \div 1000)
    \o <<"", "c", "cc", "ccc", "cd", "d", "dc", "dcc", "dccc", "cm">>[((n \div 100) % 10) + 1]
    \o <<"", "x", "xx", "xxx", "xl", "l", "lx", "lxx", "lxxx", "xc">>[((n \div 10) % 10) + 1]
    \o <<"", "i", "ii", "iii", "iv", "v", "vi", "vii", "viii", "ix">>[(n % 10) + 1]

\* The letter label of n: a..z for 1..26, then aa, ab, ...
RECURSIVE LetterLabel(_, _)
LetterLabel(n, letters) ==
    IF n <= 26 THEN letters[n]
    ELSE LetterLabel((n - 1) \div 26, letters) \o letters[((n - 1) % 26) + 1]

\* The Roman numerals are the standard ones for every position up to 3999.
RomanIsStandard ==
    (indexStr # "" /\ indexIn.index <= 3999) =>
        /\ indexIn.format = "III" => indexStr = StandardRoman(indexIn.index)
        /\ indexIn.format = "iii" => indexStr = StandardRomanLower(indexIn.index)

\* C21: the index string of a position up to 3999 is its standard Roman numeral for
\* the formats iii and III and its letter label (a..z, aa, ab, ...) for the formats
\* abc and ABC, in the case the format asks for.
C21_IndexStrings ==
    /\ RomanIsStandard
    /\ (indexStr # "" /\ indexIn.index <= 3999) =>
            /\ indexIn.format = "ABC" => indexStr = LetterLabel(indexIn.index, UpperChars)
            /\ indexIn.format = "abc" => indexStr = LetterLabel(indexIn.index, LowerChars)

----------------------------------------------------------------------------
(* C22: value binding *)

\* The kind of a field: the type of an input (text by default), else the tag.
FieldKind(d, n) ==
    IF d[n].tag = "input"
    THEN (IF "type" \in DOMAIN d[n].attrs THEN d[n].attrs["type"] ELSE "text")
    ELSE d[n].tag

\* The XHTML fields of a document.
Fields(d) == {n \in SeqToSet(AllNodes(d)) : IsXhtml(d, n, InputTags)}

\* The option children of select n.
OptionsOf(d, n) == {o \in SeqToSet(d[n].kids) : IsXhtml(d, o, {"option"})}

\* The value an option stands for: its value attribute, absent that its text.
OptionValue(d, o) ==
    IF "value" \in DOMAIN d[o].attrs THEN <<d[o].attrs["value"]>> ELSE d[o].text

\* Field n of the input shows the stored value in the document of renderer r.
Bound(r, n, stored) ==
    LET d == xmlIn[r].tree
        out == xml[r]
        kind == FieldKind(d, n)
    IN  CASE kind \in {"checkbox", "radio"} ->
                ("checked" \in DOMAIN out[n].attrs)
                    <=> \/ "checked" \in DOMAIN d[n].attrs
                        \/ ("value" \in DOMAIN d[n].attrs /\ d[n].attrs["value"] = stored)
          [] kind = "select" ->
                /\ \A o \in OptionsOf(d, n) :
                        OptionValue(d, o) # <<stored>> =>
                            ("selected" \in DOMAIN out[o].attrs <=> "selected" \in DOMAIN d[o].attrs)
                /\ (\E o \in OptionsOf(d, n) : OptionValue(d, o) = <<stored>>)
                        => \E o \in OptionsOf(d, n) :
                                OptionValue(d, o) = <<stored>> /\ "selected" \in DOMAIN out[o].attrs
          [] kind = "textarea" -> out[n].text = <<stored>>
          [] kind \in {"button", "submit", "hidden"} ->
                /\ out[n].text = d[n].text
                /\ ("value" \in DOMAIN out[n].attrs) <=> ("value" \in DOMAIN d[n].attrs)
                /\ "value" \in DOMAIN d[n].attrs => out[n].attrs["value"] = d[n].attrs["value"]
          [] OTHER -> "value" \in DOMAIN out[n].attrs /\ out[n].attrs["value"] = stored

\* Field n of the input is as the input had it, as far as value binding goes.
NotBound(r, n) ==
    LET d == xmlIn[r].tree
        out == xml[r]
    IN  /\ out[n].text = d[n].text
        /\ \A a \in {"value", "checked"} :
                /\ (a \in DOMAIN out[n].attrs) <=> (a \in DOMAIN d[n].attrs)
                /\ a \in DOMAIN d[n].attrs => out[n].attrs[a] = d[n].attrs[a]
        /\ \A o \in OptionsOf(d, n) :
                ("selected" \in DOMAIN out[o].attrs) <=> ("selected" \in DOMAIN d[o].attrs)

\* What C22 says of the fields of renderer r once render() has returned.
FieldsBound(r) ==
    \A n \in Fields(xmlIn[r].tree) :
        LET name == NameOf(xmlIn[r].tree, n) IN
        IF name # "" /\ name \in DOMAIN env.attempt
        THEN Bound(r, n, env.attempt[name])
        ELSE NotBound(r, n)

\* C22: a render() call on a document with fields ends by returning, and then every
\* named XHTML field whose name has a stored value shows it (checkbox and radio:
\* checked iff the value attribute equals it; select: selected on its option with
\* that value or text; textarea: as text; other inputs: as value attribute; buttons
\* and inputs of type submit, button, hidden: unchanged), and every other field is
\* unchanged in value, checked state, text and selected options.
C22_ValuesBound ==
    \A r \in DOMAIN xmlIn :
        (result[r].kind # "none" /\ Fields(xmlIn[r].tree) # {} /\ DOMAIN env.attempt # {}) =>
            (result[r].kind = "return" /\ FieldsBound(r))

----------------------------------------------------------------------------
(* C23: softened validation *)

\* The elements a native validation attribute applies to.
AppliesTo(attribute) ==
    CASE attribute = "required" -> {"input", "select", "textarea"}
      [] attribute \in {"minlength", "maxlength"} -> {"input", "textarea"}
      [] OTHER -> {"input"}

ValidationAttributes == {"required", "minlength", "maxlength", "pattern", "min", "max"}

\* The accessibility attribute that goes with a validation attribute, "" for none.
AriaOf(attribute) ==
    CASE attribute = "required" -> "aria-required"
      [] attribute = "min" -> "aria-valuemin"
      [] attribute = "max" -> "aria-valuemax"
      [] OTHER -> ""

\* The XHTML elements of the input of renderer r with one of the tags that are still
\* in its document (which has no namespaces left once the clean-up pass has run).
XhtmlOut(r, tags) ==
    {n \in SeqToSet(AllNodes(xmlIn[r].tree)) :
        IsXhtml(xmlIn[r].tree, n, tags) /\ Present(xml[r], n)}

\* The elements of the input of renderer r that carry validation attribute a and
\* are still in the output.
Validated(r, a) ==
    {n \in XhtmlOut(r, AppliesTo(a)) : HasAttr(xmlIn[r].tree[n].attrs, a)}

\* Element n of the output shows validation attribute a of the input as data.
Softened(r, n, a) ==
    LET value == IF a = "required" THEN "true" ELSE xmlIn[r].tree[n].attrs[a]
        data == "data-qpy_" \o a
        out == xml[r][n].attrs
    IN  /\ HasAttr(out, data) /\ out[data] = value
        /\ AriaOf(a) # "" => (HasAttr(out, AriaOf(a)) /\ out[AriaOf(a)] = value)

\* No XHTML element of the output of renderer r carries a native validation attribute.
NoNativeValidation(r) ==
    \A a \in ValidationAttributes :
        \A n \in XhtmlOut(r, AppliesTo(a)) : ~HasAttr(xml[r][n].attrs, a)

\* C23: after render() has returned, no XHTML input, select or textarea carries
\* required, no input or textarea carries minlength or maxlength, no input carries
\* pattern, min or max; and every element that carried one of them carries the
\* data-qpy_ attribute with the original value ("true" for required), with
\* aria-required, aria-valuemin and aria-valuemax to match.
C23_ValidationSoftened ==
    \A r \in DOMAIN xmlIn :
        result[r].kind = "return" =>
            /\ NoNativeValidation(r)
            /\ \A a \in ValidationAttributes : \A n \in Validated(r, a) : Softened(r, n, a)

----------------------------------------------------------------------------
(* C24: style classes *)

\* The words of a class attribute value, split at spaces.
RECURSIVE ClassWords(_, _)
ClassWords(v, word) ==
    IF Len(v) = 0 THEN (IF word = "" THEN <<>> ELSE <<word>>)
    ELSE IF SubSeq(v, 1, 1) = " "
         THEN (IF word = "" THEN <<>> ELSE <<word>>) \o ClassWords(SubSeq(v, 2, Len(v)), "")
         ELSE ClassWords(SubSeq(v, 2, Len(v)), word \o SubSeq(v, 1, 1))

ClassesOf(d, n) == ClassWords(GetAttr(d[n].attrs, "class", ""), "")

\* The classes an XHTML field is to have: by its tag and, for an input, its type
\* (text when it has none).
StyleClasses(d, n) ==
    LET type == GetAttr(d[n].attrs, "type", "text")
    IN  CASE d[n].tag = "button" -> {"btn", "btn-primary", "qpy-input"}
          [] d[n].tag = "input" /\ type \in ButtonTypes -> {"btn", "btn-primary", "qpy-input"}
          [] d[n].tag = "input" /\ type \in CheckTypes -> {"qpy-input"}
          [] OTHER -> {"form-control", "qpy-input"}

\* Field n of the output of renderer r is styled.
Styled(r, n) ==
    LET words == ClassesOf(xml[r], n)
    IN  /\ StyleClasses(xml[r], n) \subseteq SeqToSet(words)
        /\ SeqToSet(ClassesOf(xmlIn[r].tree, n)) \subseteq SeqToSet(words)
        /\ Cardinality(SeqToSet(words)) = Len(words)

\* C24: after render() has returned, every text-like XHTML input, select and
\* textarea has the classes form-control and qpy-input, every button and input of
\* type button, submit or reset has btn, btn-primary and qpy-input, every checkbox
\* and radio input has qpy-input; the classes of the input are kept and no class
\* name occurs twice.
C24_Styled ==
    \A r \in DOMAIN xmlIn :
        result[r].kind = "return" =>
            \A n \in XhtmlOut(r, InputTags) : Styled(r, n)

----------------------------------------------------------------------------
(* C25: unknown qpy elements *)

\* The qpy elements in the document of renderer r as it is now.
QpyPresent(r) == {n \in SeqToSet(AllNodes(xml[r])) : IsQpy(xml[r], n)}

\* The qpy elements of the input of renderer r that an earlier pass has taken out.
QpyConsumed(r) ==
    {n \in SeqToSet(AllNodes(xmlIn[r].tree)) : IsQpy(xmlIn[r].tree, n) /\ ~Present(xml[r], n)}

\* The clean-up step of renderer r: what it does to the qpy elements.
UnknownRemoved(r) ==
    /\ \A n \in QpyPresent(r) :
            /\ ~Present(xml'[r], n)
            /\ \A m \in SeqToSet(Below(xml[r], n)) : ~Present(xml'[r], m)
            /\ Cardinality(ErrorsOf(errors'[r], n, "UnknownElementError")) = 1
    /\ \A n \in QpyConsumed(r) : ErrorsOf(errors'[r], n, "UnknownElementError") = {}

\* C25: the clean-up pass (of the first render() call, the one that finds the
\* document as the earlier passes left it) removes every qpy element that is in the
\* document when it starts, with its subtree, and records exactly one
\* UnknownElementError for it; it records none for a qpy element that an earlier
\* pass has taken out.
C25_UnknownRemoved ==
    [][\A r \in DOMAIN xmlIn :
          (pc[r] = "_clean_up" /\ calls[r] = 0 /\ pc'[r] # "_clean_up") => UnknownRemoved(r)]_vars

----------------------------------------------------------------------------
(* C26: the shuffle pass only reorders *)

Item(t, tag, attrs, str, kids) == [t |-> t, tag |-> tag, attrs |-> attrs, s |-> str, kids |-> kids]

TextItems(text) == [i \in 1..Len(text) |-> Item("text", "", EmptyAttrs, text[i], {})]

\* A shuffled-index marker of the document orig, or what stands in its place: a node
\* that orig does not hold.
MarkerPlace(orig, n) ==
    \/ n \notin DOMAIN orig
    \/ IsQpy(orig, n) /\ orig[n].tag = "shuffled-index"

\* The content of the subtree of node n of d, with its tail, in document order, the
\* shuffled-index markers of orig and their replacements left out (their tails
\* kept); the children of a container of orig are taken as a set, and its
\* qpy:shuffle-contents attribute is left out.
RECURSIVE Content(_, _, _)
RECURSIVE ContentSeq(_, _, _)
Content(d, n, orig) ==
    IF MarkerPlace(orig, n) THEN TextItems(d[n].tail)
    ELSE IF n \in ShuffleContainers(orig)
    THEN <<Item("container", d[n].tag, PopAttr(d[n].attrs, "qpy:shuffle-contents"), "",
                {<<k, Content(d, k, orig)>> : k \in SeqToSet(d[n].kids)})>>
         \o TextItems(d[n].text) \o TextItems(d[n].tail)
    ELSE <<Item(d[n].kind, d[n].tag, d[n].attrs, "", {})>>
         \o TextItems(d[n].text) \o ContentSeq(d, d[n].kids, orig)
         \o <<Item("close", "", EmptyAttrs, "", {})>> \o TextItems(d[n].tail)
ContentSeq(d, ks, orig) ==
    IF ks = <<>> THEN <<>> ELSE Content(d, Head(ks), orig) \o ContentSeq(d, Tail(ks), orig)

\* The shuffle step of renderer r on container n: the same children, each once, each
\* with the content it had; the container's text and other attributes as they were.
OnlyReordered(r, n) ==
    /\ Present(xml'[r], n)
    /\ SeqToSet(xml'[r][n].kids) = SeqToSet(xml[r][n].kids)
    /\ Len(xml'[r][n].kids) = Len(xml[r][n].kids)
    /\ \A k \in SeqToSet(xml[r][n].kids) : Content(xml'[r], k, xml[r]) = Content(xml[r], k, xml[r])
    /\ xml'[r][n].text = xml[r][n].text
    /\ xml'[r][n].attrs = PopAttr(xml[r][n].attrs, "qpy:shuffle-contents")

\* The containers that the shuffle pass of renderer r finds.
ContainersPresent(r) == {n \in ShuffleContainers(xml[r]) : Present(xml[r], n)}

\* C26: the shuffle pass only reorders: each qpy:shuffle-contents container has the
\* same child nodes after the pass as before it, each once; its text and its other
\* attributes are as they were and the qpy:shuffle-contents attribute is gone; the
\* subtrees of the children are as they were, shuffled-index markers aside.
C26_OnlyReorders ==
    [][\A r \in DOMAIN xmlIn :
          (pc[r] = "_shuffle_contents" /\ pc'[r] # "_shuffle_contents") =>
              \A n \in ContainersPresent(r) : OnlyReordered(r, n)]_vars

\* A shuffle pass has ended and has changed the order of the children of a container.
C26_Witness ==
    \E r \in DOMAIN xmlIn :
        /\ pc[r] = "tostring"
        /\ \E n \in DOMAIN xmlIn[r].tree :
              /\ n \in ShuffleContainers(xmlIn[r].tree)
              /\ Present(xml[r], n)
              /\ xml[r][n].kids # xmlIn[r].tree[n].kids
              /\ ~HasAttr(xml[r][n].attrs, "qpy:shuffle-contents")

----------------------------------------------------------------------------
(* C27: the text after a removed comment or instruction *)

\* The comments and the invalid instructions of the input of renderer r that stand
\* inside an element, have text after them, and whose place is still in the
\* output: the node in front of them, or else their parent, is.
RemovedNodes(r) ==
    LET d == xmlIn[r].tree IN
    {n \in SeqToSet(AllNodes(d)) :
        /\ \/ d[n].kind = "comment"
           \/ n \in Instructions(d) /\ ~InstructionValid(d[n].text, env.placeholders)
        /\ GetParent(d, n) # NoNode
        /\ d[n].tail # <<>>
        /\ Present(xml[r], IF GetPrevious(d, n) = NoNode THEN GetParent(d, n)
                           ELSE GetPrevious(d, n))}

\* The pieces of part stand in text, one after the other.
Holds(text, part) ==
    \E i \in 1..(Len(text) - Len(part) + 1) : SubSeq(text, i, i + Len(part) - 1) = part

\* C27: when render() has returned, every comment and every invalid instruction is
\* gone and the text that followed it stands where the node was: after the node in
\* front of it, or at the start of its parent.
C27_TailKept ==
    \A r \in DOMAIN xmlIn :
        result[r].kind = "return" =>
            \A n \in RemovedNodes(r) :
                /\ ~Present(xml[r], n)
                /\ Holds(TextBefore(xml[r], xmlIn[r].tree, n), xmlIn[r].tree[n].tail)

----------------------------------------------------------------------------
(* C28: markers below nested containers *)

\* The containers of d that have marker m below one of their children.
Enclosing(d, m) ==
    {c \in ShuffleContainers(d) : \E k \in SeqToSet(d[c].kids) : m \in SeqToSet(Below(d, k))}

\* The nearest of them: the one that lies below all the others.
Nearest(d, m) ==
    CHOOSE c \in Enclosing(d, m) : \A c2 \in Enclosing(d, m) \ {c} : c \in SeqToSet(Below(d, c2))

\* The child of container c of d that holds m.
ChildHolding(d, c, m) == CHOOSE k \in SeqToSet(d[c].kids) : m \in SeqToSet(Below(d, k))

\* The node that stands in the output of renderer r where marker m stood.
InPlaceOf(r, m) ==
    LET h == Holder(xmlIn[r].tree, m)
    IN  xml[r][h].kids[IndexOf(xmlIn[r].tree[h].kids, m)]

\* The markers of the input of renderer r with a valid format that lie below a
\* child of a container inside a child of another container.
NestedMarkers(r) ==
    {m \in SeqToSet(AllNodes(xmlIn[r].tree)) :
        IsMarker(xmlIn[r].tree, m) /\ Cardinality(Enclosing(xmlIn[r].tree, m)) > 1}

\* C28: when render() has returned, a marker that lies below nested containers shows
\* the position that the child of its nearest enclosing container has in the output
\* among that container's children, in the marker's format.
C28_NearestContainer ==
    \A r \in DOMAIN xmlIn :
        result[r].kind = "return" =>
            \A m \in NestedMarkers(r) :
                LET d == xmlIn[r].tree
                    c == Nearest(d, m)
                    p == IndexOf(xml[r][c].kids, ChildHolding(d, c, m))
                IN  xml[r][InPlaceOf(r, m)].text
                        = <<ExpectedIndex(GetAttr(d[m].attrs, "format", "123"), p)>>

----------------------------------------------------------------------------
(* C29: a stored score has its attempt *)

Stored(name) == name \in DOMAIN stateFiles

\* C29: in every state the attempt routes reach, whatever the interleaving of their
\* handlers, a stored score comes with a stored attempt state.
C29_ScoreHasAttempt == Stored("SCORE") => Stored("ATTEMPT_STATE")

----------------------------------------------------------------------------
(* C30: no file-change notification is lost *)

\* A rebuild-and-restart is in progress.
Rebuilding == runForever \in {"stop_server", "restart_server"}

\* After every rebuild that run_forever survives, the watch is scheduled again.
WatchRescheduled == [](runForever = "wait" => watch)

\* A notification handed to the loop during the n-th rebuild is followed by another
\* rebuild, unless run_forever ends with the exception of a failed stop.  Runs in
\* which the files change MaxChanges times are left aside: in the runs that count,
\* a further file change is always possible.
NotificationServed ==
    \A n \in 0..MaxChanges :
        (Rebuilding /\ notifyCalls > 0 /\ rebuilds = n)
            ~> (rebuilds > n \/ runForever = "raised" \/ changes = MaxChanges)

\* C30: under fair scheduling, a notification that arrives while a rebuild-and-restart
\* is in progress is followed by another rebuild, and the watch is scheduled again
\* after every rebuild, whether the build or the start of the server failed or not.
C30_NotificationKept == NotificationServed /\ WatchRescheduled

====
